---- MODULE Spec2Model ----
(***************************************************************************)
(* Model of the order-book aggregation service of DIVA-0x-api:             *)
(*   src/src/services/orderbook_service.ts  (OrderBookService)             *)
(*   src/unnamed/part_000                   (SRAHandlers)                  *)
(*                                                                         *)
(* Amounts are BigNumber values.  BigNumber.div does not truncate: it      *)
(* yields a decimal fraction (rounded only at the 78th decimal place), so  *)
(* a BigNumber is modelled as an exact fraction <<numerator, denominator>> *)
(* in lowest terms.  Every divisor the model uses has only the prime       *)
(* factors 2 and 5, so each quotient is a terminating decimal and the      *)
(* fraction is exactly the value BigNumber holds.                          *)
(***************************************************************************)
EXTENDS Integers, Sequences, FiniteSets, TLC

(***************************************************************************)
(* Bounds of the model.                                                    *)
(***************************************************************************)
\* Largest number of orders held by the order source.
MaxOrders == 2
\* Largest number of balance checker batches one ledger is fetched in.
MaxBatches == 3

(***************************************************************************)
(* Program constants.                                                      *)
(***************************************************************************)
SRA_ORDER_EXPIRATION_BUFFER_SECONDS == 10
ARRAY_LIMIT_LENGTH == 400
DUST_FLOOR == 100
FEE_UNIT_DENOMINATOR == 100000

(***************************************************************************)
(* BigNumber arithmetic.                                                   *)
(***************************************************************************)
Abs(n) == IF n < 0 THEN -n ELSE n

RECURSIVE GCD(_, _)
GCD(a, b) == IF b = 0 THEN a ELSE GCD(b, a % b)

\* The fraction n/d (d # 0) in lowest terms with a positive denominator.
Norm(n, d) ==
    LET g == GCD(Abs(n), Abs(d))
        s == IF d < 0 THEN -1 ELSE 1
    IN  <<(s * n) \div g, (s * d) \div g>>

\* new BigNumber(n) for an integer n.
BN(n) == <<n, 1>>

multipliedBy(a, b) == Norm(a[1] * b[1], a[2] * b[2])
div(a, b) == Norm(a[1] * b[2], a[2] * b[1])
minus(a, b) == Norm(a[1] * b[2] - b[1] * a[2], a[2] * b[2])
plus(a, b) == Norm(a[1] * b[2] + b[1] * a[2], a[2] * b[2])
gt(a, b) == a[1] * b[2] > b[1] * a[2]
lte(a, b) == a[1] * b[2] <= b[1] * a[2]
gte(a, b) == a[1] * b[2] >= b[1] * a[2]
isInteger(a) == a[2] = 1

(***************************************************************************)
(* Addresses.  An address is a hex string; the model keeps the account it  *)
(* names (id) and whether the string is written in checksum (mixed) case   *)
(* or in lower case.  The null address has no letters, so it has one form. *)
(***************************************************************************)
Addr(id, cs) == [id |-> id, cs |-> cs /\ id # 0]
toLowerCase(a) == [a EXCEPT !.cs = FALSE]
getAddress(a) == [a EXCEPT !.cs = (a.id # 0)]

NULL_ADDRESS == Addr(0, FALSE)
DIVA_GOVERNANCE_ADDRESS == Addr(9, TRUE)

Makers == {Addr(1, FALSE), Addr(2, FALSE)}

\* Tokens of the pools the subgraph can return: pool p has a long and a
\* short position token; all pools share one collateral token.
CollateralToken == Addr(30, FALSE)
LongToken(p) == Addr(10 + p, FALSE)
ShortToken(p) == Addr(20 + p, FALSE)
Pool(p) == [longToken |-> LongToken(p), shortToken |-> ShortToken(p),
            collateralToken |-> CollateralToken]

(***************************************************************************)
(* Orders.  A stored order (SignedOrderV4Entity) carries integer amounts;  *)
(* deserializeOrderToSRAOrder turns remainingFillableTakerAmount into a    *)
(* BigNumber (metaData) and keeps the order fields.                        *)
(***************************************************************************)
Entity(h, mk, tk, mTok, tTok, mAmt, tAmt, fee, fr, exp, rem) ==
    [hash |-> h, maker |-> mk, taker |-> tk, makerToken |-> mTok,
     takerToken |-> tTok, makerAmount |-> mAmt, takerAmount |-> tAmt,
     takerTokenFeeAmount |-> fee, feeRecipient |-> fr, expiry |-> exp,
     remainingFillableTakerAmount |-> rem]

deserializeOrderToSRAOrder(e) ==
    [e EXCEPT !.remainingFillableTakerAmount = BN(e.remainingFillableTakerAmount)]

\* Amount profiles <<makerAmount, takerAmount, remainingFillableTakerAmount,
\* seconds of life left beyond the expiration buffer (0 = just expired)>>.
Profiles == <<
    <<800, 800, 800, 1>>,
    <<500, 500, 500, 1>>,
    <<2000, 2500, 1251, 1>>,
    <<1000, 1000, 1000, 0>> >>

\* <<makerToken, takerToken>> of the bids and asks of the two markets of pool 1.
Directions == <<
    <<CollateralToken, LongToken(1)>>,
    <<LongToken(1), CollateralToken>>,
    <<CollateralToken, ShortToken(1)>>,
    <<ShortToken(1), CollateralToken>> >>

\* The orders the order source may hold: every maker, direction and fresh
\* profile, and the expired profile for maker 1.  Orders of profile 2 were
\* stored with the maker address in checksum case.
OrderKinds ==
    {c \in Makers \X (DOMAIN Directions) \X (DOMAIN Profiles) :
        Profiles[c[3]][4] > 0 \/ c[1].id = 1}

OrderOfKind(m, d, p) ==
    Entity((m.id * 10 + d) * 10 + p,
           IF p = 2 THEN getAddress(m) ELSE m,
           NULL_ADDRESS, Directions[d][1], Directions[d][2],
           Profiles[p][1], Profiles[p][2], 0, NULL_ADDRESS,
           SRA_ORDER_EXPIRATION_BUFFER_SECONDS + Profiles[p][4],
           Profiles[p][3])

OrderUniverse == {OrderOfKind(c[1], c[2], c[3]) : c \in OrderKinds}

RECURSIVE SubsetsUpTo(_, _)
SubsetsUpTo(U, k) ==
    IF k = 0 THEN {{}}
    ELSE LET P == SubsetsUpTo(U, k - 1)
         IN  P \cup {S \cup {x} : S \in P, x \in U}

\* What the collateral oracle answers: min(balance, allowance) per maker
\* account (the same for each of the maker's tokens).
Balances == {0, 1000}
MakerIds == {m.id : m \in Makers}

(***************************************************************************)
(* Sequence helpers (Array.prototype.filter / map / concat / slice).       *)
(***************************************************************************)
RECURSIVE SetToSortedSeq(_)
SetToSortedSeq(S) ==
    IF S = {} THEN <<>>
    ELSE LET x == CHOOSE y \in S : \A z \in S : y.hash <= z.hash
         IN  <<x>> \o SetToSortedSeq(S \ {x})

Map(f(_), s) == [k \in DOMAIN s |-> f(s[k])]
Range(s) == {s[k] : k \in DOMAIN s}
Min(a, b) == IF a < b THEN a ELSE b
Slice(s, from, to) == SubSeq(s, from + 1, Min(to, Len(s)))

(***************************************************************************)
(* orderUtils and paginationUtils (src/utils, not part of the sources):    *)
(* modelled from the specification.                                        *)
(***************************************************************************)
\* 4.1: an order is expired if expiry <= now + buffer.
isFreshOrder(o, now) == o.expiry > now + SRA_ORDER_EXPIRATION_BUFFER_SECONDS

groupByFreshness(orders, now) ==
    [fresh |-> SelectSeq(orders, LAMBDA o : isFreshOrder(o, now)),
     expired |-> SelectSeq(orders, LAMBDA o : ~isFreshOrder(o, now))]

\* 4.2: bids by makerAmount / takerAmount descending, then hash ascending.
compareBidOrder(a, b) ==
    LET pa == div(BN(a.makerAmount), BN(a.takerAmount))
        pb == div(BN(b.makerAmount), BN(b.takerAmount))
    IN  IF pa # pb THEN gt(pa, pb) ELSE a.hash < b.hash

\* 4.2: asks by takerAmount / makerAmount ascending, then hash ascending.
compareAskOrder(a, b) ==
    LET pa == div(BN(a.takerAmount), BN(a.makerAmount))
        pb == div(BN(b.takerAmount), BN(b.makerAmount))
    IN  IF pa # pb THEN gt(pb, pa) ELSE a.hash < b.hash

\* 8: page p of size n holds items (p-1)*n+1 .. p*n; total is attached.
paginate(collection, page, perPage) ==
    [total |-> Len(collection), page |-> page, perPage |-> perPage,
     records |-> Slice(collection, (page - 1) * perPage, page * perPage)]

(***************************************************************************)
(* OrderBookService: the pure helpers.                                     *)
(***************************************************************************)
\* Faulty variant: the fixed floor applies only when no threshold is set.
belowThreshold_FloorOnlyByDefault(remaining, threshold) ==
    IF threshold # 0
    THEN lte(remaining, BN(threshold))
    ELSE lte(remaining, BN(DUST_FLOOR))

\* The threshold test of filterOrder: at or below the request's threshold
\* (if one is set), or at or below the fixed floor.
belowThreshold(remaining, threshold) ==
    \/ /\ threshold # 0
       /\ lte(remaining, BN(threshold))
    \/ lte(remaining, BN(DUST_FLOOR))

\* Faulty variant: an open order paying the governance address is turned
\* down whatever its fee.
feePreCheck_AnyFee(order, takerTokenFeeAmountExpected) ==
    /\ order.taker = NULL_ADDRESS
    /\ order.feeRecipient = toLowerCase(DIVA_GOVERNANCE_ADDRESS)

\* The first fee test of filterOrder: an order anyone can fill, paying the
\* governance address, with a fee out of tolerance.
feePreCheck(order, takerTokenFeeAmountExpected) ==
    /\ order.taker = NULL_ADDRESS
    /\ order.feeRecipient = toLowerCase(DIVA_GOVERNANCE_ADDRESS)
    /\ \/ lte(BN(order.takerTokenFeeAmount), minus(takerTokenFeeAmountExpected, BN(1)))
       \/ gte(BN(order.takerTokenFeeAmount), plus(takerTokenFeeAmountExpected, BN(1)))

\* Faulty variant: the order's taker is compared as it is written.
takerMismatch_AsWritten(order, req) ==
    req.taker # NULL_ADDRESS /\ req.taker # order.taker

\* The taker test of filterOrder.
takerMismatch(order, req) ==
    req.taker # NULL_ADDRESS /\ req.taker # toLowerCase(order.taker)

\* The fee recipient test of filterOrder.
feeRecipientMismatch(order, req) ==
    /\ req.feeRecipient # NULL_ADDRESS
    /\ toLowerCase(order.feeRecipient) # req.feeRecipient

\* The request filter (an SRAOrder and an OrderbookPriceRequest).
filterOrder(order, req) ==
    LET takerTokenFeeAmountExpected ==
            multipliedBy(BN(order.takerAmount),
                         Norm(req.takerTokenFee, FEE_UNIT_DENOMINATOR))
        fee == BN(order.takerTokenFeeAmount)
        outOfTolerance ==
            \/ lte(fee, minus(takerTokenFeeAmountExpected, BN(1)))
            \/ gte(fee, plus(takerTokenFeeAmountExpected, BN(1)))
    IN  IF /\ req.takerTokenFee # -1
           /\ \/ feePreCheck(order, takerTokenFeeAmountExpected)
              \/ outOfTolerance
        THEN FALSE
        ELSE IF takerMismatch(order, req)
        THEN FALSE
        ELSE IF feeRecipientMismatch(order, req)
        THEN FALSE
        ELSE IF belowThreshold(order.remainingFillableTakerAmount, req.threshold)
        THEN FALSE
        ELSE TRUE

\* The record of a best bid or ask: addresses in checksum form.
getBidOrAskFormat(record) ==
    [maker |-> getAddress(record.maker),
     taker |-> getAddress(record.taker),
     makerToken |-> getAddress(record.makerToken),
     takerToken |-> getAddress(record.takerToken),
     makerAmount |-> record.makerAmount,
     takerAmount |-> record.takerAmount,
     takerTokenFeeAmount |-> record.takerTokenFeeAmount,
     feeRecipient |-> getAddress(record.feeRecipient),
     expiry |-> record.expiry,
     remainingFillableTakerAmount |-> record.remainingFillableTakerAmount]

getMakerInfo(records) ==
    [makers |-> Map(LAMBDA o : o.maker, records),
     makerTokens |-> Map(LAMBDA o : o.makerToken, records)]

\* Faulty variant: the pairs are compared as they are written.
makerIndexOf_AsWritten(makers, makerTokens, order) ==
    LET hits == {k \in DOMAIN makers :
                    /\ makers[k] = order.maker
                    /\ makerTokens[k] = order.makerToken}
    IN  IF hits = {} THEN 0 ELSE CHOOSE k \in hits : \A j \in hits : j <= k

\* Faulty variant: a position matches if the maker does, whatever the token.
makerIndexOf_MakerOnly(makers, makerTokens, order) ==
    LET hits == {k \in DOMAIN makers :
                    toLowerCase(makers[k]) = toLowerCase(order.maker)}
    IN  IF hits = {} THEN 0 ELSE CHOOSE k \in hits : \A j \in hits : j <= k

\* Faulty variant: a position matches if the maker or the token does.
makerIndexOf_Either(makers, makerTokens, order) ==
    LET hits == {k \in DOMAIN makers :
                    \/ toLowerCase(makers[k]) = toLowerCase(order.maker)
                    \/ toLowerCase(makerTokens[k]) = toLowerCase(order.makerToken)}
    IN  IF hits = {} THEN 0 ELSE CHOOSE k \in hits : \A j \in hits : j <= k

\* The index getFillableOrder settles on: the last position whose pair
\* matches the order's (maker, makerToken), compared in lower case; 0 if
\* none does (positions are 1-based here, -1 in the source).
makerIndexOf(makers, makerTokens, order) ==
    LET hits == {k \in DOMAIN makers :
                    /\ toLowerCase(makers[k]) = toLowerCase(order.maker)
                    /\ toLowerCase(makerTokens[k]) = toLowerCase(order.makerToken)}
    IN  IF hits = {} THEN 0 ELSE CHOOSE k \in hits : \A j \in hits : j <= k

\* The maker amount implied by the order's remaining taker amount.
remainingFillableMakerAmount(order) ==
    div(multipliedBy(BN(order.makerAmount), order.remainingFillableTakerAmount),
        BN(order.takerAmount))

\* Faulty variant: a negative entry counts as collateral.
hasCollateral_NonZero(available) == available # BN(0)

\* The branch of getFillableOrder: is any collateral left for the pair?
hasCollateral(available) == gt(available, BN(0))

\* Faulty variant: the comparison the other way round.
exceedsCollateral_Reversed(impliedMakerAmount, available) ==
    gt(available, impliedMakerAmount)

\* Must the remaining taker amount be reduced?
exceedsCollateral(impliedMakerAmount, available) ==
    gt(impliedMakerAmount, available)

\* The reduced remaining taker amount: what is left, at the order's price.
reducedTakerAmount(available, order) ==
    div(multipliedBy(available, BN(order.takerAmount)), BN(order.makerAmount))

\* Faulty variant: the entry is less what the order can draw from it.
debited_ByAmountDrawn(entry, impliedMakerAmount) ==
    IF gt(impliedMakerAmount, entry) THEN BN(0) ELSE minus(entry, impliedMakerAmount)

\* Faulty variant: the entry is left as it was.
debited_Kept(entry, impliedMakerAmount) == entry

\* The ledger entry after the order: less the implied maker amount.
debited(entry, impliedMakerAmount) == minus(entry, impliedMakerAmount)

\* Faulty variant: the stored amount is kept.
unfillable_Kept(order) == order

\* The order an exhausted pair leaves: nothing fillable.
unfillable(order) == [order EXCEPT !.remainingFillableTakerAmount = BN(0)]

\* Faulty variant: the entry of the first position of the order's pair,
\* which no fold step writes: the figure the balance checker gave.
available_Resampled(makers, makerTokens, minOfBalancesOrAllowances, makerIndex) ==
    minOfBalancesOrAllowances[
        CHOOSE k \in DOMAIN makers :
            /\ toLowerCase(makers[k]) = toLowerCase(makers[makerIndex])
            /\ toLowerCase(makerTokens[k]) = toLowerCase(makerTokens[makerIndex])
            /\ \A j \in 1..(k - 1) :
                    \/ toLowerCase(makers[j]) # toLowerCase(makers[makerIndex])
                    \/ toLowerCase(makerTokens[j]) # toLowerCase(makerTokens[makerIndex])]

\* What is left for the order's pair: the entry of the ledger passed in at
\* the index found.
available(makers, makerTokens, minOfBalancesOrAllowances, makerIndex) ==
    minOfBalancesOrAllowances[makerIndex]

\* One fold step.  threw: reading minOfBalancesOrAllowances[-1] gives
\* undefined, and calling .gt on it raises a TypeError.
getFillableOrder(makers, makerTokens, minOfBalancesOrAllowances, order) ==
    LET makerIndex == makerIndexOf(makers, makerTokens, order)
    IN  IF makerIndex = 0
        THEN [threw |-> TRUE, extendedOrder |-> order,
              minOfBalancesOrAllowances |-> minOfBalancesOrAllowances]
        ELSE
        LET remainingMakerMinOfBalancesOrAllowances ==
                available(makers, makerTokens, minOfBalancesOrAllowances,
                          makerIndex)
        IN  IF hasCollateral(remainingMakerMinOfBalancesOrAllowances)
            THEN [threw |-> FALSE,
                  extendedOrder |->
                    [order EXCEPT !.remainingFillableTakerAmount =
                        IF exceedsCollateral(remainingFillableMakerAmount(order),
                                             remainingMakerMinOfBalancesOrAllowances)
                        THEN reducedTakerAmount(
                                remainingMakerMinOfBalancesOrAllowances, order)
                        ELSE order.remainingFillableTakerAmount],
                  minOfBalancesOrAllowances |->
                    [minOfBalancesOrAllowances EXCEPT ![makerIndex] =
                        debited(minOfBalancesOrAllowances[makerIndex],
                                remainingFillableMakerAmount(order))]]
            ELSE [threw |-> FALSE,
                  extendedOrder |-> unfillable(order),
                  minOfBalancesOrAllowances |-> minOfBalancesOrAllowances]

\* Faulty variant: the freshness filter is left out.
freshApiOrders_All(entities, now) == Map(deserializeOrderToSRAOrder, entities)

\* The fresh orders among stored ones, as SRAOrders.
freshApiOrders(entities, now) ==
    SelectSeq(Map(deserializeOrderToSRAOrder, entities),
              LAMBDA o : isFreshOrder(o, now))

\* The bids and asks of a market: the orders of the source in either
\* direction, split by direction, fresh ones only, ranked.
getSignedOrderEntities(orderSource, baseToken, quoteToken, now) ==
    LET orderEntities ==
            SelectSeq(SetToSortedSeq(orderSource),
                      LAMBDA o : /\ o.takerToken \in {baseToken, quoteToken}
                                 /\ o.makerToken \in {baseToken, quoteToken})
        bidSignedOrderEntities ==
            SelectSeq(orderEntities,
                      LAMBDA o : o.takerToken = baseToken /\ o.makerToken = quoteToken)
        askSignedOrderEntities ==
            SelectSeq(orderEntities,
                      LAMBDA o : o.takerToken = quoteToken /\ o.makerToken = baseToken)
    IN  [bidApiOrders |->
            SortSeq(freshApiOrders(bidSignedOrderEntities, now), compareBidOrder),
         askApiOrders |->
            SortSeq(freshApiOrders(askSignedOrderEntities, now), compareAskOrder)]

\* The chunks of at most ARRAY_LIMIT_LENGTH items of a list, in order.
RECURSIVE Chunks(_)
Chunks(s) ==
    IF Len(s) = 0 THEN <<>>
    ELSE <<SubSeq(s, 1, Min(ARRAY_LIMIT_LENGTH, Len(s)))>>
         \o Chunks(SubSeq(s, Min(ARRAY_LIMIT_LENGTH, Len(s)) + 1, Len(s)))

RECURSIVE Concat(_)
Concat(ss) == IF Len(ss) = 0 THEN <<>> ELSE Head(ss) \o Concat(Tail(ss))

\* The balance checker contract: min(balance, allowance) of each pair.
BalanceChecker(balances, holders, tokens) ==
    [k \in DOMAIN holders |-> BN(balances[holders[k].id])]

\* The ledger of a pass: one entry per position of makers / makerTokens,
\* asked of the balance checker chunk by chunk and concatenated in order.
getMinOfBalancesOrAllowances(balances, makers, makerTokens) ==
    LET makersChunks == Chunks(makers)
        makersTokensChunks == Chunks(makerTokens)
        checkRes == [k \in DOMAIN makersChunks |->
                        BalanceChecker(balances, makersChunks[k], makersTokensChunks[k])]
    IN  Concat(checkRes)

\* Faulty variant: a batch that failed counts as zeros, the others stand.
awaitAll_ZeroFilled(answers, failed) ==
    [rejected |-> FALSE,
     value |-> [k \in DOMAIN answers |->
                    IF k \in failed
                    THEN [j \in DOMAIN answers[k] |-> BN(0)]
                    ELSE answers[k]]]

\* await Promise.all(...) over the batch calls: the answers in the order of
\* the batches, or the rejection of a batch that failed.
awaitAll(answers, failed) ==
    IF failed # {}
    THEN [rejected |-> TRUE, value |-> <<>>]
    ELSE [rejected |-> FALSE, value |-> answers]

\* getMinOfBalancesOrAllowances when the batches of the set failed do not
\* answer: nothing is caught, so the rejection of Promise.all is its own.
getMinOfBalancesOrAllowancesAsync(balances, holders, tokens, failed) ==
    LET makersChunks == Chunks(holders)
        makersTokensChunks == Chunks(tokens)
        checkRes == awaitAll([k \in DOMAIN makersChunks |->
                                BalanceChecker(balances, makersChunks[k],
                                               makersTokensChunks[k])],
                             failed)
    IN  [rejected |-> checkRes.rejected,
         minOfBalancesOrAllowances |-> Concat(checkRes.value)]

(***************************************************************************)
(* State.                                                                  *)
(***************************************************************************)
VARIABLES
    orderSource,    \* the stored orders (SignedOrderV4Entity table)
    persistentOrders,   \* the PersistentSignedOrderV4Entity table
    balances,       \* what the balance checker answers, per maker account
    now,            \* the clock, in seconds
    pc,             \* where the call in flight stands
    call,           \* the call in flight and its arguments
    pools,          \* the markets of the call with their ranked bids and asks
    pending,        \* markets whose order-source query has not returned
    makers,         \* maker address array of the call
    makerTokens,    \* maker token address array of the call
    minOfBalancesOrAllowances,  \* the ledger of the call
    i,              \* getPricesAsync: the market being scanned
    side,           \* getPricesAsync: what the scan does in market i
    count,          \* position of the fold in the current bid or ask list
    best,           \* getPricesAsync: bestBid and bestAsk of market i
    result,         \* resultBids / resultAsks, or the records of getPricesAsync
    response,       \* what the call returned
    alerted,        \* orders handed to alertOnExpiredOrders
    folded,         \* the fold steps of the call, in order
    first,          \* what the client kept of the previous, identical call
    ioLog,          \* the calls to collaborators the call has issued, in order
    other,          \* a second call: its local variables while it is suspended
    checkRes,       \* balance checker batches: the answers that have arrived
    sent,           \* the status codes the handler has sent on res
    WHITELISTED_TOKENS,     \* configuration: '*' or the tokens orders may name
    ORDERS_POST_REQUESTS    \* the counter of /orders post requests, by type

vars == <<orderSource, persistentOrders, balances, now, pc, call, pools, pending, makers,
          makerTokens, minOfBalancesOrAllowances, i, side, count, best,
          result, response, alerted, folded, first, ioLog, other, checkRes,
          sent, WHITELISTED_TOKENS, ORDERS_POST_REQUESTS>>

\* What no step of a call changes.
env == <<orderSource, persistentOrders, balances, now, first, other,
         sent, WHITELISTED_TOKENS, ORDERS_POST_REQUESTS>>

\* WHITELISTED_TOKENS = '*': every token is allowed.
AnyToken == [any |-> TRUE, tokens |-> {}]

\* The handlers of the read calls send nothing the model follows.
NoPost ==
    /\ sent = <<>>
    /\ WHITELISTED_TOKENS = AnyToken
    /\ ORDERS_POST_REQUESTS = [single |-> 0, multi |-> 0]

\* The empty object {} a best bid or ask starts as.
EmptyObject == [empty |-> TRUE]
NoResponse == [kind |-> "none"]

\* <<page, perPage>> of a request (paginationUtils.parsePaginationConfig).
PageConfigs == {<<1, 10>>, <<1, 1>>}

\* A query string parameter is absent ({}) or present ({value}).
Given(param) == CHOOSE v \in param : TRUE

\* SRAHandlers.orderbookPricesAsync: the request built from the query.
orderbookPricesRequest(page, perPage, query) ==
    [page |-> page,
     perPage |-> perPage,
     taker |-> IF query.taker = {} THEN NULL_ADDRESS
               ELSE toLowerCase(Given(query.taker)),
     feeRecipient |-> IF query.feeRecipient = {} THEN NULL_ADDRESS
                      ELSE toLowerCase(Given(query.feeRecipient)),
     takerTokenFee |-> IF query.takerTokenFee = {} THEN -1
                       ELSE Given(query.takerTokenFee),
     threshold |-> IF query.threshold = {} THEN -1
                   ELSE Given(query.threshold)]

\* Requests of orderbookPricesAsync in the aggregation model: no taker, fee
\* recipient or fee parameter; threshold absent or 200.
PriceRequests ==
    { orderbookPricesRequest(1, 10, [taker |-> {}, feeRecipient |-> {},
                                     takerTokenFee |-> {}, threshold |-> {}]),
      orderbookPricesRequest(1, 1, [taker |-> {}, feeRecipient |-> {},
                                    takerTokenFee |-> {}, threshold |-> {200}]) }

\* The request getOrderBookAsync filters with.
BookRequest(page, perPage) ==
    [page |-> page, perPage |-> perPage, taker |-> NULL_ADDRESS,
     feeRecipient |-> NULL_ADDRESS, takerTokenFee |-> -1, threshold |-> 0]

\* The markets a client may ask the book of.
BookMarkets == {<<LongToken(1), CollateralToken>>, <<ShortToken(1), CollateralToken>>}

\* What fetchPoolLists may return (at most perPage pools).
PoolLists == {<<>>, <<Pool(1)>>}

\* The local variables of a call that has not started, and a second call
\* in that state.
IdleCall ==
    [pc |-> "idle", call |-> [kind |-> "none"], pools |-> <<>>, pending |-> {},
     makers |-> <<>>, makerTokens |-> <<>>, minOfBalancesOrAllowances |-> <<>>,
     i |-> 0, side |-> "none", count |-> 0,
     best |-> [bid |-> EmptyObject, ask |-> EmptyObject],
     result |-> [bids |-> <<>>, asks |-> <<>>, records |-> <<>>],
     response |-> NoResponse, folded |-> <<>>, ioLog |-> <<>>]

NoOtherCall == [locals |-> IdleCall, overlapped |-> FALSE]

Market(base, quote) ==
    [baseToken |-> base, quoteToken |-> quote, bids |-> <<>>, asks |-> <<>>]

Init ==
    /\ orderSource \in SubsetsUpTo(OrderUniverse, MaxOrders)
    /\ persistentOrders = {}
    /\ balances \in [MakerIds -> Balances]
    /\ now = 0
    /\ pc = "idle"
    /\ call = [kind |-> "none"]
    /\ pools = <<>>
    /\ pending = {}
    /\ makers = <<>>
    /\ makerTokens = <<>>
    /\ minOfBalancesOrAllowances = <<>>
    /\ i = 0
    /\ side = "none"
    /\ count = 0
    /\ best = [bid |-> EmptyObject, ask |-> EmptyObject]
    /\ result = [bids |-> <<>>, asks |-> <<>>, records |-> <<>>]
    /\ response = NoResponse
    /\ alerted = <<>>
    /\ folded = <<>>
    /\ first = [kind |-> "none"]
    /\ ioLog = <<>>
    /\ other = NoOtherCall
    /\ checkRes = <<>>
    /\ NoPost

\* Faulty variant: the filter comes first, and an order it turns down
\* leaves the ledger as it was.
FoldStep_FilterFirst(order, req) ==
    LET fillableOrder ==
            getFillableOrder(makers, makerTokens, minOfBalancesOrAllowances, order)
        k == makerIndexOf(makers, makerTokens, order)
        accepted == filterOrder(fillableOrder.extendedOrder, req)
        ledger == IF accepted THEN fillableOrder.minOfBalancesOrAllowances
                  ELSE minOfBalancesOrAllowances
    IN  [fillableOrder |-> [fillableOrder EXCEPT !.minOfBalancesOrAllowances = ledger],
         accepted |-> accepted,
         entry |-> [order |-> order,
                    pool |-> i,
                    side |-> side,
                    available |-> minOfBalancesOrAllowances[k],
                    after |-> ledger[k],
                    extendedOrder |-> fillableOrder.extendedOrder,
                    accepted |-> accepted]]

\* One application of getFillableOrder and filterOrder to an order, as the
\* loops of getOrderBookAsync and getPricesAsync do it.
FoldStep(order, req) ==
    LET fillableOrder ==
            getFillableOrder(makers, makerTokens, minOfBalancesOrAllowances, order)
        k == makerIndexOf(makers, makerTokens, order)
    IN  [fillableOrder |-> fillableOrder,
         accepted |-> filterOrder(fillableOrder.extendedOrder, req),
         entry |-> [order |-> order,
                    pool |-> i,
                    side |-> side,
                    available |-> minOfBalancesOrAllowances[k],
                    after |-> fillableOrder.minOfBalancesOrAllowances[k],
                    extendedOrder |-> fillableOrder.extendedOrder,
                    accepted |-> filterOrder(fillableOrder.extendedOrder, req)]]

\* A call to a collaborator (order source, subgraph, balance checker), with
\* the number of fold steps the call in flight has done when it is issued.
Issued(kind, args) == [kind |-> kind, args |-> args, foldSteps |-> Len(folded)]

\* The balance checker calls getMinOfBalancesOrAllowances issues: one per
\* chunk of makers, with the chunk of makerTokens of the same index.
batchCalls(holders, tokens) ==
    LET makersChunks == Chunks(holders)
        makersTokensChunks == Chunks(tokens)
    IN  [index \in DOMAIN makersChunks |->
            Issued("oracle", <<makersChunks[index], makersTokensChunks[index]>>)]

(***************************************************************************)
(* getOrderBookAsync(page, perPage, baseToken, quoteToken)                 *)
(***************************************************************************)
\* The call starts and awaits the order source.
GetOrderBook(page, perPage, baseToken, quoteToken) ==
    /\ pc = "idle"
    /\ pc' = "book_find"
    /\ call' = [kind |-> "book", req |-> BookRequest(page, perPage),
                baseToken |-> baseToken, quoteToken |-> quoteToken]
    /\ ioLog' = Append(ioLog, Issued("find", <<baseToken, quoteToken>>))
    /\ UNCHANGED <<env, checkRes, pools, pending, makers, makerTokens,
                   minOfBalancesOrAllowances, i, side, count, best, result,
                   response, alerted, folded>>

\* getSignedOrderEntities returns; the maker arrays are built (bids, then
\* asks) and the balance checker is asked.
BookFindReturns ==
    /\ pc = "book_find"
    /\ LET got == getSignedOrderEntities(orderSource, call.baseToken,
                                         call.quoteToken, now)
           bidMakerInfo == getMakerInfo(got.bidApiOrders)
           askMakerInfo == getMakerInfo(got.askApiOrders)
       IN  /\ pools' = <<[baseToken |-> call.baseToken,
                          quoteToken |-> call.quoteToken,
                          bids |-> got.bidApiOrders, asks |-> got.askApiOrders]>>
           /\ makers' = (<<>> \o bidMakerInfo.makers) \o askMakerInfo.makers
           /\ makerTokens' = (<<>> \o bidMakerInfo.makerTokens) \o askMakerInfo.makerTokens
           /\ ioLog' = ioLog \o
                batchCalls((<<>> \o bidMakerInfo.makers) \o askMakerInfo.makers,
                           (<<>> \o bidMakerInfo.makerTokens) \o askMakerInfo.makerTokens)
    /\ pc' = "book_oracle"
    /\ UNCHANGED <<env, checkRes, call, pending, minOfBalancesOrAllowances, i, side,
                   count, best, result, response, alerted, folded>>

\* getMinOfBalancesOrAllowances returns the snapshot; the bid loop starts.
BookOracleReturns ==
    /\ pc = "book_oracle"
    /\ minOfBalancesOrAllowances' =
            getMinOfBalancesOrAllowances(balances, makers, makerTokens)
    /\ pc' = "book_fold"
    /\ i' = 1
    /\ side' = "bid"
    /\ count' = 0
    /\ UNCHANGED <<env, ioLog, checkRes, call, pools, pending, makers, makerTokens, best,
                   result, response, alerted, folded>>

\* One iteration of bidApiOrders.map.
BookFoldBid ==
    /\ pc = "book_fold" /\ side = "bid"
    /\ count < Len(pools[1].bids)
    /\ LET order == pools[1].bids[count + 1]
           step == FoldStep(order, call.req)
       IN  /\ ~step.fillableOrder.threw
           /\ minOfBalancesOrAllowances' = step.fillableOrder.minOfBalancesOrAllowances
           /\ result' = IF step.accepted
                        THEN [result EXCEPT !.bids = Append(@, order)]
                        ELSE result
           /\ folded' = Append(folded, step.entry)
    /\ count' = count + 1
    /\ UNCHANGED <<env, ioLog, checkRes, pc, call, pools, pending, makers, makerTokens, i,
                   side, best, response, alerted>>

\* Faulty variant: the ledger is asked of the balance checker again
\* between the two loops.
BookBidsDone_Resnapshot ==
    /\ pc = "book_fold" /\ side = "bid"
    /\ count = Len(pools[1].bids)
    /\ side' = "ask"
    /\ count' = 0
    /\ minOfBalancesOrAllowances' =
            getMinOfBalancesOrAllowances(balances, makers, makerTokens)
    /\ UNCHANGED <<env, ioLog, checkRes, pc, call, pools, pending, makers, makerTokens,
                   i, best, result, response, alerted, folded>>

\* The bid loop is over; the ask loop starts on the ledger as it stands.
BookBidsDone ==
    /\ pc = "book_fold" /\ side = "bid"
    /\ count = Len(pools[1].bids)
    /\ side' = "ask"
    /\ count' = 0
    /\ UNCHANGED <<env, ioLog, checkRes, pc, call, pools, pending, makers, makerTokens,
                   minOfBalancesOrAllowances, i, best, result, response,
                   alerted, folded>>

\* One iteration of askApiOrders.map.
BookFoldAsk ==
    /\ pc = "book_fold" /\ side = "ask"
    /\ count < Len(pools[1].asks)
    /\ LET order == pools[1].asks[count + 1]
           step == FoldStep(order, call.req)
       IN  /\ ~step.fillableOrder.threw
           /\ minOfBalancesOrAllowances' = step.fillableOrder.minOfBalancesOrAllowances
           /\ result' = IF step.accepted
                        THEN [result EXCEPT !.asks = Append(@, order)]
                        ELSE result
           /\ folded' = Append(folded, step.entry)
    /\ count' = count + 1
    /\ UNCHANGED <<env, ioLog, checkRes, pc, call, pools, pending, makers, makerTokens, i,
                   side, best, response, alerted>>

\* Both lists are paginated and returned.
BookReturn ==
    /\ pc = "book_fold" /\ side = "ask"
    /\ count = Len(pools[1].asks)
    /\ response' = [kind |-> "book",
                    bids |-> paginate(result.bids, call.req.page, call.req.perPage),
                    asks |-> paginate(result.asks, call.req.page, call.req.perPage)]
    /\ pc' = "done"
    /\ UNCHANGED <<env, ioLog, checkRes, call, pools, pending, makers, makerTokens,
                   minOfBalancesOrAllowances, i, side, count, best, result,
                   alerted, folded>>

(***************************************************************************)
(* getPricesAsync(req)                                                     *)
(***************************************************************************)
\* The call starts and awaits fetchPoolLists.
GetPrices(req) ==
    /\ pc = "idle"
    /\ pc' = "prices_pools"
    /\ call' = [kind |-> "prices", req |-> req,
                baseToken |-> NULL_ADDRESS, quoteToken |-> NULL_ADDRESS]
    /\ ioLog' = Append(ioLog, Issued("pools", <<req.page, req.perPage>>))
    /\ UNCHANGED <<env, checkRes, pools, pending, makers, makerTokens,
                   minOfBalancesOrAllowances, i, side, count, best, result,
                   response, alerted, folded>>

\* The two markets of each pool, in the order of the list.
RECURSIVE MarketsOf(_)
MarketsOf(res) ==
    IF Len(res) = 0 THEN <<>>
    ELSE <<Market(Head(res).longToken, Head(res).collateralToken),
           Market(Head(res).shortToken, Head(res).collateralToken)>>
         \o MarketsOf(Tail(res))

\* fetchPoolLists returns; one order-source query per market is issued.
\* With no market, Promise.all resolves at once and the balance checker is
\* asked about the empty arrays.
PricesPoolsReturn(res) ==
    /\ pc = "prices_pools"
    /\ Len(res) <= call.req.perPage
    /\ pools' = MarketsOf(res)
    /\ pending' = DOMAIN MarketsOf(res)
    /\ pc' = IF Len(res) = 0 THEN "prices_oracle" ELSE "prices_find"
    /\ ioLog' = ioLog \o
            [k \in DOMAIN MarketsOf(res) |->
                Issued("find", <<MarketsOf(res)[k].baseToken,
                                 MarketsOf(res)[k].quoteToken>>)]
    /\ UNCHANGED <<env, checkRes, call, makers, makerTokens, minOfBalancesOrAllowances,
                   i, side, count, best, result, response, alerted, folded>>

\* Faulty variant: the callback of market k writes the arrays from the
\* values they had when its query was issued (empty), dropping what the
\* callbacks before it appended.
PricesFindReturns_FromStale(k) ==
    /\ pc = "prices_find"
    /\ k \in pending
    /\ LET got == getSignedOrderEntities(orderSource, pools[k].baseToken,
                                         pools[k].quoteToken, now)
           bidMakerInfo == getMakerInfo(got.bidApiOrders)
           askMakerInfo == getMakerInfo(got.askApiOrders)
       IN  /\ pools' = [pools EXCEPT ![k].bids = got.bidApiOrders,
                                     ![k].asks = got.askApiOrders]
           /\ makers' = bidMakerInfo.makers \o askMakerInfo.makers
           /\ makerTokens' = bidMakerInfo.makerTokens \o askMakerInfo.makerTokens
           /\ ioLog' =
                IF pending = {k}
                THEN ioLog \o
                     batchCalls(bidMakerInfo.makers \o askMakerInfo.makers,
                                bidMakerInfo.makerTokens \o askMakerInfo.makerTokens)
                ELSE ioLog
    /\ pending' = pending \ {k}
    /\ pc' = IF pending = {k} THEN "prices_oracle" ELSE "prices_find"
    /\ UNCHANGED <<env, checkRes, call, minOfBalancesOrAllowances, i, side, count, best,
                   result, response, alerted, folded>>

\* The query of market k returns (in any order among the markets); its
\* bids and asks are kept and their makers appended to the arrays.  After
\* the last one the balance checker is asked.
PricesFindReturns(k) ==
    /\ pc = "prices_find"
    /\ k \in pending
    /\ LET got == getSignedOrderEntities(orderSource, pools[k].baseToken,
                                         pools[k].quoteToken, now)
           bidMakerInfo == getMakerInfo(got.bidApiOrders)
           askMakerInfo == getMakerInfo(got.askApiOrders)
       IN  /\ pools' = [pools EXCEPT ![k].bids = got.bidApiOrders,
                                     ![k].asks = got.askApiOrders]
           /\ makers' = (makers \o bidMakerInfo.makers) \o askMakerInfo.makers
           /\ makerTokens' =
                (makerTokens \o bidMakerInfo.makerTokens) \o askMakerInfo.makerTokens
           /\ ioLog' =
                IF pending = {k}
                THEN ioLog \o
                     batchCalls((makers \o bidMakerInfo.makers) \o askMakerInfo.makers,
                                (makerTokens \o bidMakerInfo.makerTokens)
                                    \o askMakerInfo.makerTokens)
                ELSE ioLog
    /\ pending' = pending \ {k}
    /\ pc' = IF pending = {k} THEN "prices_oracle" ELSE "prices_find"
    /\ UNCHANGED <<env, checkRes, call, minOfBalancesOrAllowances, i, side, count, best,
                   result, response, alerted, folded>>

\* getMinOfBalancesOrAllowances returns the snapshot; the scan starts.
PricesOracleReturns ==
    /\ pc = "prices_oracle"
    /\ minOfBalancesOrAllowances' =
            getMinOfBalancesOrAllowances(balances, makers, makerTokens)
    /\ pc' = "prices_scan"
    /\ i' = 1
    /\ side' = "bid"
    /\ count' = 0
    /\ UNCHANGED <<env, ioLog, checkRes, call, pools, pending, makers, makerTokens, best,
                   result, response, alerted, folded>>

\* Faulty variant: the loop goes on after an order passed, and the last
\* order that passes is bestBid.
PricesScanBid_NoBreak ==
    /\ pc = "prices_scan" /\ side = "bid"
    /\ i <= Len(pools)
    /\ count < Len(pools[i].bids)
    /\ LET order == pools[i].bids[count + 1]
           step == FoldStep(order, call.req)
       IN  /\ ~step.fillableOrder.threw
           /\ minOfBalancesOrAllowances' = step.fillableOrder.minOfBalancesOrAllowances
           /\ folded' = Append(folded, step.entry)
           /\ best' = IF step.accepted
                      THEN [best EXCEPT !.bid = getBidOrAskFormat(order)]
                      ELSE best
           /\ count' = count + 1
           /\ UNCHANGED side
    /\ UNCHANGED <<env, ioLog, checkRes, pc, call, pools, pending, makers, makerTokens, i,
                   result, response, alerted>>

\* One iteration of the while loop over the bids of market i: the first
\* order that passes becomes bestBid and ends the loop.
PricesScanBid ==
    /\ pc = "prices_scan" /\ side = "bid"
    /\ i <= Len(pools)
    /\ count < Len(pools[i].bids)
    /\ LET order == pools[i].bids[count + 1]
           step == FoldStep(order, call.req)
       IN  /\ ~step.fillableOrder.threw
           /\ minOfBalancesOrAllowances' = step.fillableOrder.minOfBalancesOrAllowances
           /\ folded' = Append(folded, step.entry)
           /\ IF step.accepted
              THEN /\ best' = [best EXCEPT !.bid = getBidOrAskFormat(order)]
                   /\ side' = "ask"
                   /\ count' = 0
              ELSE /\ count' = count + 1
                   /\ UNCHANGED <<best, side>>
    /\ UNCHANGED <<env, ioLog, checkRes, pc, call, pools, pending, makers, makerTokens, i,
                   result, response, alerted>>

\* No bid of market i is left to try: bestBid stays as it is.
PricesBidsDone ==
    /\ pc = "prices_scan" /\ side = "bid"
    /\ i <= Len(pools)
    /\ count = Len(pools[i].bids)
    /\ side' = "ask"
    /\ count' = 0
    /\ UNCHANGED <<env, ioLog, checkRes, pc, call, pools, pending, makers, makerTokens,
                   minOfBalancesOrAllowances, i, best, result, response,
                   alerted, folded>>

\* The end of the body of the for loop: the record of market i is pushed
\* with the best bid found and the given best ask, and market i + 1 is next.
PushRecord(bestAsk) ==
    /\ result' = [result EXCEPT !.records =
                    Append(@, [baseToken |-> getAddress(pools[i].baseToken),
                               quoteToken |-> getAddress(pools[i].quoteToken),
                               bid |-> best.bid,
                               ask |-> bestAsk])]
    /\ i' = i + 1
    /\ side' = "bid"
    /\ count' = 0
    /\ best' = [bid |-> EmptyObject, ask |-> EmptyObject]

\* One iteration of the while loop over the asks of market i: the first
\* order that passes becomes bestAsk and ends the loop.
PricesScanAsk ==
    /\ pc = "prices_scan" /\ side = "ask"
    /\ count < Len(pools[i].asks)
    /\ LET order == pools[i].asks[count + 1]
           step == FoldStep(order, call.req)
       IN  /\ ~step.fillableOrder.threw
           /\ minOfBalancesOrAllowances' = step.fillableOrder.minOfBalancesOrAllowances
           /\ folded' = Append(folded, step.entry)
           /\ IF step.accepted
              THEN PushRecord(getBidOrAskFormat(order))
              ELSE /\ count' = count + 1
                   /\ UNCHANGED <<best, side, i, result>>
    /\ UNCHANGED <<env, ioLog, checkRes, pc, call, pools, pending, makers, makerTokens,
                   response, alerted>>

\* No ask of market i is left to try: bestAsk stays empty.
PricesAsksDone ==
    /\ pc = "prices_scan" /\ side = "ask"
    /\ count = Len(pools[i].asks)
    /\ PushRecord(EmptyObject)
    /\ UNCHANGED <<env, ioLog, checkRes, pc, call, pools, pending, makers, makerTokens,
                   minOfBalancesOrAllowances, response, alerted, folded>>

\* The for loop is over: page 1 of the records is returned.
PricesReturn ==
    /\ pc = "prices_scan" /\ side = "bid"
    /\ i > Len(pools)
    /\ response' = [kind |-> "prices",
                    page |-> paginate(result.records, 1, call.req.perPage)]
    /\ pc' = "done"
    /\ UNCHANGED <<env, ioLog, checkRes, call, pools, pending, makers, makerTokens,
                   minOfBalancesOrAllowances, i, side, count, best, result,
                   alerted, folded>>

(***************************************************************************)
(* getBatchOrdersAsync(page, perPage, makerTokens, takerTokens)            *)
(***************************************************************************)
\* <<makerTokens, takerTokens>> a client may ask the orders of.
BatchQueries == {<<{CollateralToken}, {LongToken(1), ShortToken(1)}>>,
                 <<{LongToken(1), ShortToken(1)}, {CollateralToken}>>}

GetBatchOrders(page, perPage, mTokens, tTokens) ==
    /\ pc = "idle"
    /\ pc' = "batch_find"
    /\ call' = [kind |-> "batch", req |-> BookRequest(page, perPage),
                baseToken |-> mTokens, quoteToken |-> tTokens]
    /\ ioLog' = Append(ioLog, Issued("find", <<mTokens, tTokens>>))
    /\ UNCHANGED <<env, checkRes, pools, pending, makers, makerTokens,
                   minOfBalancesOrAllowances, i, side, count, best, result,
                   response, alerted, folded>>

\* The query returns; expired orders are reported, fresh ones paginated.
BatchFindReturns ==
    /\ pc = "batch_find"
    /\ LET signedOrderEntities ==
                SelectSeq(SetToSortedSeq(orderSource),
                          LAMBDA o : /\ o.makerToken \in call.baseToken
                                     /\ o.takerToken \in call.quoteToken)
           apiOrders == Map(deserializeOrderToSRAOrder, signedOrderEntities)
           grouped == groupByFreshness(apiOrders, now)
       IN  /\ alerted' = alerted \o grouped.expired
           /\ response' = [kind |-> "batch",
                           page |-> paginate(grouped.fresh, call.req.page,
                                             call.req.perPage)]
    /\ pc' = "done"
    /\ UNCHANGED <<env, ioLog, checkRes, call, pools, pending, makers, makerTokens,
                   minOfBalancesOrAllowances, i, side, count, best, result,
                   folded>>

(***************************************************************************)
(* The service handling one call.                                          *)
(***************************************************************************)
Next ==
    \/ \E pg \in PageConfigs, m \in BookMarkets : GetOrderBook(pg[1], pg[2], m[1], m[2])
    \/ BookFindReturns
    \/ BookOracleReturns
    \/ BookFoldBid
    \/ BookBidsDone
    \/ BookFoldAsk
    \/ BookReturn
    \/ \E req \in PriceRequests : GetPrices(req)
    \/ \E res \in PoolLists : PricesPoolsReturn(res)
    \/ \E k \in pending : PricesFindReturns(k)
    \/ PricesOracleReturns
    \/ PricesScanBid
    \/ PricesBidsDone
    \/ PricesScanAsk
    \/ PricesAsksDone
    \/ PricesReturn
    \/ \E pg \in PageConfigs, q \in BatchQueries :
            GetBatchOrders(pg[1], pg[2], q[1], q[2])
    \/ BatchFindReturns

Spec == Init /\ [][Next]_vars

(***************************************************************************)
(* The service when a collaborator may fail.  Neither getOrderBookAsync    *)
(* nor getPricesAsync nor the helpers they await catch anything, so a      *)
(* rejected await ends the call with that error.                           *)
(***************************************************************************)
Rejection(error) == [kind |-> "error", error |-> error]

\* The order-source query of getOrderBookAsync fails.
BookFindFails ==
    /\ pc = "book_find"
    /\ pc' = "failed"
    /\ response' = Rejection("order source")
    /\ UNCHANGED <<env, ioLog, checkRes, call, pools, pending, makers,
                   makerTokens, minOfBalancesOrAllowances, i, side, count,
                   best, result, alerted, folded>>

\* What the await of getMinOfBalancesOrAllowances leaves when the batches
\* of the set failed: the rejection, or a ledger to fold with.
OracleOutcome(failed, folding) ==
    LET out == getMinOfBalancesOrAllowancesAsync(balances, makers,
                                                 makerTokens, failed)
    IN  IF out.rejected
        THEN /\ pc' = "failed"
             /\ response' = Rejection("balance checker")
             /\ UNCHANGED <<minOfBalancesOrAllowances, i, side, count>>
        ELSE /\ pc' = folding
             /\ minOfBalancesOrAllowances' = out.minOfBalancesOrAllowances
             /\ i' = 1
             /\ side' = "bid"
             /\ count' = 0
             /\ UNCHANGED response

\* Some balance checker batches of getOrderBookAsync fail.
BookOracleFails(failed) ==
    /\ pc = "book_oracle"
    /\ failed # {}
    /\ failed \subseteq DOMAIN Chunks(makers)
    /\ OracleOutcome(failed, "book_fold")
    /\ UNCHANGED <<env, ioLog, checkRes, call, pools, pending, makers,
                   makerTokens, best, result, alerted, folded>>

\* The order-source query of market k of getPricesAsync fails.
PricesFindFails(k) ==
    /\ pc = "prices_find"
    /\ k \in pending
    /\ pc' = "failed"
    /\ response' = Rejection("order source")
    /\ UNCHANGED <<env, ioLog, checkRes, call, pools, pending, makers,
                   makerTokens, minOfBalancesOrAllowances, i, side, count,
                   best, result, alerted, folded>>

\* Some balance checker batches of getPricesAsync fail.
PricesOracleFails(failed) ==
    /\ pc = "prices_oracle"
    /\ failed # {}
    /\ failed \subseteq DOMAIN Chunks(makers)
    /\ OracleOutcome(failed, "prices_scan")
    /\ UNCHANGED <<env, ioLog, checkRes, call, pools, pending, makers,
                   makerTokens, best, result, alerted, folded>>

NextFail ==
    \/ Next
    \/ BookFindFails
    \/ \E failed \in SUBSET (DOMAIN Chunks(makers)) : BookOracleFails(failed)
    \/ \E k \in pending : PricesFindFails(k)
    \/ \E failed \in SUBSET (DOMAIN Chunks(makers)) : PricesOracleFails(failed)

SpecFail == Init /\ [][NextFail]_vars

(***************************************************************************)
(* Two calls in flight.  The service runs on one thread: a call runs until *)
(* it awaits a collaborator, and then the other call may run.  Everything  *)
(* a call works on is a local variable of getOrderBookAsync or             *)
(* getPricesAsync; the service object holds the connection only.           *)
(***************************************************************************)
\* Where a call is suspended (awaiting), not started, or over.
SuspensionPoints == {"idle", "book_find", "book_oracle", "prices_pools",
                     "prices_find", "prices_oracle", "done", "failed"}

InFlight(at) == at \notin {"idle", "done", "failed"}

\* The local variables of the call that is running.
Locals ==
    [pc |-> pc, call |-> call, pools |-> pools, pending |-> pending,
     makers |-> makers, makerTokens |-> makerTokens,
     minOfBalancesOrAllowances |-> minOfBalancesOrAllowances,
     i |-> i, side |-> side, count |-> count, best |-> best,
     result |-> result, response |-> response, folded |-> folded,
     ioLog |-> ioLog]

\* Faulty variant: the result lists are one object for both calls.
resultOf_Shared(locals) == result

\* resultBids / resultAsks / result of a call: its own arrays.
resultOf(locals) == locals.result

\* The running call is suspended and the other call runs on.
Switch ==
    /\ pc \in SuspensionPoints
    /\ other' = [locals |-> Locals,
                 overlapped |-> \/ other.overlapped
                                \/ InFlight(pc) /\ InFlight(other.locals.pc)]
    /\ pc' = other.locals.pc
    /\ call' = other.locals.call
    /\ pools' = other.locals.pools
    /\ pending' = other.locals.pending
    /\ makers' = other.locals.makers
    /\ makerTokens' = other.locals.makerTokens
    /\ minOfBalancesOrAllowances' = other.locals.minOfBalancesOrAllowances
    /\ i' = other.locals.i
    /\ side' = other.locals.side
    /\ count' = other.locals.count
    /\ best' = other.locals.best
    /\ result' = resultOf(other.locals)
    /\ response' = other.locals.response
    /\ folded' = other.locals.folded
    /\ ioLog' = other.locals.ioLog
    /\ UNCHANGED <<orderSource, persistentOrders, balances, now, first,
                   alerted, checkRes, sent, WHITELISTED_TOKENS,
                   ORDERS_POST_REQUESTS>>

NextPair == Next \/ Switch

\* Orders of one maker: bids of both markets of pool 1 (on the collateral)
\* and asks of the long market.
PairOrders ==
    {OrderOfKind(Addr(1, FALSE), d, p) : d \in {1, 2, 3}, p \in {1, 2, 3}}

InitPair ==
    /\ Init
    /\ orderSource \in SubsetsUpTo(PairOrders, MaxOrders)
    /\ balances = [m \in MakerIds |-> 1000]

SpecPair == InitPair /\ [][NextPair]_vars

(***************************************************************************)
(* What a call gives when it runs alone, as one computation.               *)
(***************************************************************************)
\* The fold of getOrderBookAsync over a ranked list: the orders kept and
\* the ledger left.
RECURSIVE FoldAll(_, _, _, _, _)
FoldAll(orders, req, mks, mTokens, ledger) ==
    IF Len(orders) = 0 THEN [ledger |-> ledger, kept |-> <<>>]
    ELSE LET fillableOrder == getFillableOrder(mks, mTokens, ledger, Head(orders))
             rest == FoldAll(Tail(orders), req, mks, mTokens,
                             fillableOrder.minOfBalancesOrAllowances)
         IN  [ledger |-> rest.ledger,
              kept |-> IF filterOrder(fillableOrder.extendedOrder, req)
                       THEN <<Head(orders)>> \o rest.kept
                       ELSE rest.kept]

\* The while loop of getPricesAsync over a ranked list: the first order
\* that passes (or {}) and the ledger left.
RECURSIVE ScanBest(_, _, _, _, _)
ScanBest(orders, req, mks, mTokens, ledger) ==
    IF Len(orders) = 0 THEN [ledger |-> ledger, best |-> EmptyObject]
    ELSE LET fillableOrder == getFillableOrder(mks, mTokens, ledger, Head(orders))
         IN  IF filterOrder(fillableOrder.extendedOrder, req)
             THEN [ledger |-> fillableOrder.minOfBalancesOrAllowances,
                   best |-> getBidOrAskFormat(Head(orders))]
             ELSE ScanBest(Tail(orders), req, mks, mTokens,
                           fillableOrder.minOfBalancesOrAllowances)

\* The for loop of getPricesAsync: one record per market, in order.
RECURSIVE ScanMarkets(_, _, _, _, _)
ScanMarkets(markets, req, mks, mTokens, ledger) ==
    IF Len(markets) = 0 THEN <<>>
    ELSE LET bid == ScanBest(Head(markets).bids, req, mks, mTokens, ledger)
             ask == ScanBest(Head(markets).asks, req, mks, mTokens, bid.ledger)
         IN  <<[baseToken |-> getAddress(Head(markets).baseToken),
                quoteToken |-> getAddress(Head(markets).quoteToken),
                bid |-> bid.best, ask |-> ask.best]>>
             \o ScanMarkets(Tail(markets), req, mks, mTokens, ask.ledger)

\* getOrderBookAsync run from start to end.
BookAlone(c) ==
    LET got == getSignedOrderEntities(orderSource, c.baseToken, c.quoteToken, now)
        bidMakerInfo == getMakerInfo(got.bidApiOrders)
        askMakerInfo == getMakerInfo(got.askApiOrders)
        mks == bidMakerInfo.makers \o askMakerInfo.makers
        mTokens == bidMakerInfo.makerTokens \o askMakerInfo.makerTokens
        ledger == getMinOfBalancesOrAllowances(balances, mks, mTokens)
        bids == FoldAll(got.bidApiOrders, c.req, mks, mTokens, ledger)
        asks == FoldAll(got.askApiOrders, c.req, mks, mTokens, bids.ledger)
    IN  [kind |-> "book",
         bids |-> paginate(bids.kept, c.req.page, c.req.perPage),
         asks |-> paginate(asks.kept, c.req.page, c.req.perPage)]

\* getPricesAsync run from start to end on the markets fetchPoolLists
\* gave, the order-source queries returning in the order of the markets.
PricesAlone(c, marketList) ==
    LET markets ==
            [k \in DOMAIN marketList |->
                LET got == getSignedOrderEntities(orderSource,
                                marketList[k].baseToken,
                                marketList[k].quoteToken, now)
                IN  [baseToken |-> marketList[k].baseToken,
                     quoteToken |-> marketList[k].quoteToken,
                     bids |-> got.bidApiOrders, asks |-> got.askApiOrders]]
        mks == Concat([k \in DOMAIN markets |->
                        getMakerInfo(markets[k].bids).makers
                            \o getMakerInfo(markets[k].asks).makers])
        mTokens == Concat([k \in DOMAIN markets |->
                        getMakerInfo(markets[k].bids).makerTokens
                            \o getMakerInfo(markets[k].asks).makerTokens])
        ledger == getMinOfBalancesOrAllowances(balances, mks, mTokens)
    IN  [kind |-> "prices",
         page |-> paginate(ScanMarkets(markets, c.req, mks, mTokens, ledger),
                           1, c.req.perPage)]

\* What the call with these local variables gives when it runs alone.
ResponseAlone(locals) ==
    IF locals.call.kind = "book"
    THEN BookAlone(locals.call)
    ELSE PricesAlone(locals.call, locals.pools)

(***************************************************************************)
(* The client repeats a call it got the answer of, with the same           *)
(* arguments, and keeps what the first call gave.                          *)
(***************************************************************************)
\* The ledger as a map: for each pair of the arrays, the entry the fold
\* reads and writes for it.
LedgerMap ==
    { <<toLowerCase(makers[k]), toLowerCase(makerTokens[k]),
        minOfBalancesOrAllowances[
            CHOOSE j \in DOMAIN makers :
                /\ toLowerCase(makers[j]) = toLowerCase(makers[k])
                /\ toLowerCase(makerTokens[j]) = toLowerCase(makerTokens[k])
                /\ \A l \in DOMAIN makers :
                        ( /\ toLowerCase(makers[l]) = toLowerCase(makers[k])
                          /\ toLowerCase(makerTokens[l]) = toLowerCase(makerTokens[k]) )
                        => l <= j]>>
        : k \in DOMAIN makers }

Rerun ==
    /\ pc = "done"
    /\ call.kind \in {"book", "prices"}
    /\ first.kind = "none"
    /\ first' = [kind |-> call.kind, pools |-> pools, makers |-> makers,
                 ledger |-> LedgerMap, folded |-> folded, response |-> response]
    /\ pc' = IF call.kind = "book" THEN "book_find" ELSE "prices_pools"
    /\ pools' = <<>>
    /\ pending' = {}
    /\ makers' = <<>>
    /\ makerTokens' = <<>>
    /\ minOfBalancesOrAllowances' = <<>>
    /\ i' = 0
    /\ side' = "none"
    /\ count' = 0
    /\ best' = [bid |-> EmptyObject, ask |-> EmptyObject]
    /\ result' = [bids |-> <<>>, asks |-> <<>>, records |-> <<>>]
    /\ response' = NoResponse
    /\ folded' = <<>>
    /\ ioLog' = IF call.kind = "book"
                THEN <<[kind |-> "find",
                        args |-> <<call.baseToken, call.quoteToken>>,
                        foldSteps |-> 0]>>
                ELSE <<[kind |-> "pools",
                        args |-> <<call.req.page, call.req.perPage>>,
                        foldSteps |-> 0]>>
    /\ UNCHANGED <<orderSource, persistentOrders, balances, now, call,
                   alerted, other, checkRes, sent, WHITELISTED_TOKENS,
                   ORDERS_POST_REQUESTS>>

NextRerun == Next \/ Rerun

\* The runs are compared over stored orders that are all fresh.
InitRerun ==
    /\ Init
    /\ \A o \in orderSource : isFreshOrder(o, now)

SpecRerun == InitRerun /\ [][NextRerun]_vars

(***************************************************************************)
(* filterOrder on its own: any order against any request the handler       *)
(* builds.                                                                 *)
(***************************************************************************)
Optional(S) == {{}} \cup {{x} : x \in S}

FilterQueries ==
    [taker : Optional({Addr(5, TRUE)}),
     feeRecipient : Optional({DIVA_GOVERNANCE_ADDRESS, Addr(6, FALSE)}),
     takerTokenFee : Optional({0, 1000}),
     threshold : Optional({0, 50, 100, 150})]

FilterRemaining == {BN(0), BN(100), <<201, 2>>, BN(101), BN(150), BN(1000)}

FilterOrders ==
    { [Entity(1, Addr(1, FALSE), tk, CollateralToken, LongToken(1), 1000, tAmt,
              fee, fr, SRA_ORDER_EXPIRATION_BUFFER_SECONDS + 1, 0)
          EXCEPT !.remainingFillableTakerAmount = rem]
        : tk \in {NULL_ADDRESS, Addr(5, FALSE), Addr(5, TRUE), Addr(7, FALSE)},
          fr \in {NULL_ADDRESS, toLowerCase(DIVA_GOVERNANCE_ADDRESS),
                  DIVA_GOVERNANCE_ADDRESS, Addr(6, FALSE)},
          tAmt \in {1000, 1050},
          fee \in {0, 9, 10, 11, 12},
          rem \in FilterRemaining }

InitFilter ==
    /\ orderSource = {}
    /\ persistentOrders = {}
    /\ balances = [m \in MakerIds |-> 0]
    /\ now = 0
    /\ pc = "filter"
    /\ call \in [kind : {"filter"},
                  req : {orderbookPricesRequest(1, 10, q) : q \in FilterQueries},
                  order : FilterOrders]
    /\ pools = <<>>
    /\ pending = {}
    /\ makers = <<>>
    /\ makerTokens = <<>>
    /\ minOfBalancesOrAllowances = <<>>
    /\ i = 0
    /\ side = "none"
    /\ count = 0
    /\ best = [bid |-> EmptyObject, ask |-> EmptyObject]
    /\ result = [bids |-> <<>>, asks |-> <<>>, records |-> <<>>]
    /\ response = NoResponse
    /\ alerted = <<>>
    /\ folded = <<>>
    /\ first = [kind |-> "none"]
    /\ ioLog = <<>>
    /\ other = NoOtherCall
    /\ checkRes = <<>>
    /\ NoPost

ApplyFilter ==
    /\ pc = "filter"
    /\ response' = [kind |-> "filter",
                    accepted |-> filterOrder(call.order, call.req)]
    /\ pc' = "done"
    /\ UNCHANGED <<env, ioLog, checkRes, call, pools, pending, makers, makerTokens,
                   minOfBalancesOrAllowances, i, side, count, best, result,
                   alerted, folded>>

NextFilter == ApplyFilter

SpecFilter == InitFilter /\ [][NextFilter]_vars

(***************************************************************************)
(* getOrdersAsync(page, perPage, orderFieldFilters, additionalFilters)     *)
(***************************************************************************)
\* The states of a persistent order the unfillable query asks for.
removedStates == {"CANCELLED", "EXPIRED", "FULLY_FILLED", "INVALID",
                  "STOPPED_WATCHING", "UNFUNDED"}

\* A row of the persistent table: the order and its state.
PersistentEntity(e, orderState) ==
    [f \in DOMAIN e \cup {"orderState"} |->
        IF f = "orderState" THEN orderState ELSE e[f]]

\* paginationUtils (not part of the sources): the rows page p of size n
\* takes, and the envelope of a page.
paginateDBFilters(page, perPage) == [skip |-> (page - 1) * perPage, take |-> perPage]

paginateSerialize(collection, total, page, perPage) ==
    [total |-> total, page |-> page, perPage |-> perPage, records |-> collection]

\* Faulty variant: nothing is required.
requiresMaker_Never(orderFieldFilters, additionalFilters) == FALSE

\* The validation of getOrdersAsync: unfillable orders are only given for
\* a maker.
requiresMaker(orderFieldFilters, additionalFilters) ==
    /\ additionalFilters.isUnfillable = {TRUE}
    /\ orderFieldFilters.maker = {}

ValidationError(field, code, reason) ==
    [kind |-> "ValidationError", field |-> field, code |-> code, reason |-> reason]

\* The OR subclauses of the query: the order fields, with the trader (if
\* given) as maker in one clause and as taker in another.
orderFilters(orderFieldFilters, additionalFilters) ==
    IF additionalFilters.trader # {}
    THEN <<[maker |-> additionalFilters.trader, taker |-> {}],
           [maker |-> orderFieldFilters.maker, taker |-> additionalFilters.trader]>>
    ELSE <<[maker |-> orderFieldFilters.maker, taker |-> {}]>>

\* A row satisfies one of the clauses.
matchesWhere(row, filters) ==
    \E k \in DOMAIN filters :
        /\ filters[k].maker = {} \/ row.maker = Given(filters[k].maker)
        /\ filters[k].taker = {} \/ row.taker = Given(filters[k].taker)

\* connection.manager.find with skip / take, ordered by hash.
findRows(table, paging) ==
    Slice(SetToSortedSeq(table), paging.skip, paging.skip + paging.take)

\* Orders and persistent orders getOrdersAsync may meet.
ListedOrders ==
    { Entity(mk.id * 100 + tk.id * 10 + life + 1, mk, tk, CollateralToken,
             LongToken(1), 800, 800, 0, NULL_ADDRESS,
             SRA_ORDER_EXPIRATION_BUFFER_SECONDS + life, 800)
        : mk \in Makers, tk \in {NULL_ADDRESS, Addr(1, FALSE)},
          life \in {-1, 0} }

ListedPersistentOrders ==
    { PersistentEntity(
        Entity(50 + m.id, m, NULL_ADDRESS, CollateralToken, LongToken(1),
               800, 800, 0, NULL_ADDRESS, 0, 0), st)
        : m \in Makers, st \in {"CANCELLED", "ADDED"} }

OrdersQueries ==
    [maker : Optional(Makers),
     isUnfillable : Optional({TRUE, FALSE}),
     trader : Optional({Addr(1, FALSE)})]

InitOrders ==
    /\ orderSource \in SubsetsUpTo(ListedOrders, MaxOrders)
    /\ persistentOrders \in SubsetsUpTo(ListedPersistentOrders, MaxOrders - 1)
    /\ balances = [m \in MakerIds |-> 0]
    /\ now = 0
    /\ pc = "idle"
    /\ call = [kind |-> "none"]
    /\ pools = <<>>
    /\ pending = {}
    /\ makers = <<>>
    /\ makerTokens = <<>>
    /\ minOfBalancesOrAllowances = <<>>
    /\ i = 0
    /\ side = "none"
    /\ count = 0
    /\ best = [bid |-> EmptyObject, ask |-> EmptyObject]
    /\ result = [bids |-> <<>>, asks |-> <<>>, records |-> <<>>]
    /\ response = NoResponse
    /\ alerted = <<>>
    /\ folded = <<>>
    /\ first = [kind |-> "none"]
    /\ ioLog = <<>>
    /\ other = NoOtherCall
    /\ checkRes = <<>>
    /\ NoPost

\* The call starts: it throws at once if a maker is required and missing,
\* else it issues count and find on the order table and awaits both.
GetOrders(page, perPage, q) ==
    /\ pc = "idle"
    /\ call' = [kind |-> "orders", page |-> page, perPage |-> perPage,
                orderFieldFilters |-> [maker |-> q.maker],
                additionalFilters |-> [isUnfillable |-> q.isUnfillable,
                                       trader |-> q.trader]]
    /\ IF requiresMaker([maker |-> q.maker],
                        [isUnfillable |-> q.isUnfillable, trader |-> q.trader])
       THEN /\ pc' = "failed"
            /\ response' = ValidationError("maker", "RequiredField",
                                           "UnfillableRequiresMakerAddress")
            /\ UNCHANGED ioLog
       ELSE /\ pc' = "orders_find"
            /\ ioLog' = ioLog \o <<Issued("count", "SignedOrderV4Entity"),
                                    Issued("find", "SignedOrderV4Entity")>>
            /\ UNCHANGED response
    /\ UNCHANGED <<env, checkRes, pools, pending, makers, makerTokens,
                   minOfBalancesOrAllowances, i, side, count, best, result,
                   alerted, folded>>

\* The rows of the order table that satisfy the clauses and expire at or
\* after now + buffer.
signedOrderRows ==
    LET filters == orderFilters(call.orderFieldFilters, call.additionalFilters)
        minExpiryTime == now + SRA_ORDER_EXPIRATION_BUFFER_SECONDS
    IN  {o \in orderSource : matchesWhere(o, filters) /\ o.expiry >= minExpiryTime}

\* The rows of the persistent table that satisfy the clauses and are in a
\* removed state.
persistentRows ==
    LET filters == orderFilters(call.orderFieldFilters, call.additionalFilters)
    IN  {o \in persistentOrders :
            matchesWhere(o, filters) /\ o.orderState \in removedStates}

\* The page the call returns: the orders found and, for an unfillable
\* query, the persistent orders found.
OrdersPage(withPersistent) ==
    LET paging == paginateDBFilters(call.page, call.perPage)
        apiOrders == Map(deserializeOrderToSRAOrder, findRows(signedOrderRows, paging))
        persistent ==
            IF withPersistent
            THEN Map(deserializeOrderToSRAOrder, findRows(persistentRows, paging))
            ELSE <<>>
        persistentOrdersCount == IF withPersistent THEN Cardinality(persistentRows) ELSE 0
    IN  paginateSerialize(apiOrders \o persistent,
                          Cardinality(signedOrderRows) + persistentOrdersCount,
                          call.page, call.perPage)

\* count and find return: the page is returned, or (unfillable query) the
\* persistent table is asked first.
OrdersFindReturns ==
    /\ pc = "orders_find"
    /\ IF call.additionalFilters.isUnfillable = {TRUE}
       THEN /\ pc' = "orders_persistent"
            /\ ioLog' = ioLog \o
                    <<Issued("count", "PersistentSignedOrderV4Entity"),
                      Issued("find", "PersistentSignedOrderV4Entity")>>
            /\ UNCHANGED response
       ELSE /\ pc' = "done"
            /\ response' = [kind |-> "orders", page |-> OrdersPage(FALSE)]
            /\ UNCHANGED ioLog
    /\ UNCHANGED <<env, checkRes, call, pools, pending, makers, makerTokens,
                   minOfBalancesOrAllowances, i, side, count, best, result,
                   alerted, folded>>

\* count and find on the persistent table return: the page is returned.
OrdersPersistentReturn ==
    /\ pc = "orders_persistent"
    /\ pc' = "done"
    /\ response' = [kind |-> "orders", page |-> OrdersPage(TRUE)]
    /\ UNCHANGED <<env, ioLog, checkRes, call, pools, pending, makers,
                   makerTokens, minOfBalancesOrAllowances, i, side, count,
                   best, result, alerted, folded>>

NextOrders ==
    \/ \E pg \in PageConfigs, q \in OrdersQueries : GetOrders(pg[1], pg[2], q)
    \/ OrdersFindReturns
    \/ OrdersPersistentReturn

SpecOrders == InitOrders /\ [][NextOrders]_vars

(***************************************************************************)
(* getMinOfBalancesOrAllowances(makers, makerTokens) step by step: the     *)
(* batch calls are issued together and answer in any order.                *)
(***************************************************************************)
\* Lengths of the lists: none, one, and a full chunk or one more, up to
\* MaxBatches batches.
OracleLengths ==
    {0, 1} \cup {c * ARRAY_LIMIT_LENGTH : c \in 1..(MaxBatches - 1)}
           \cup {c * ARRAY_LIMIT_LENGTH + 1 : c \in 1..(MaxBatches - 1)}

\* Lists of n makers and n maker tokens.
HoldersOfLength(n) ==
    [k \in 1..n |-> IF k % 3 = 1 THEN Addr(1, FALSE) ELSE Addr(2, FALSE)]

TokensOfLength(n) ==
    [k \in 1..n |-> IF k % 2 = 1 THEN CollateralToken ELSE LongToken(1)]

InitOracle ==
    /\ orderSource = {}
    /\ persistentOrders = {}
    /\ balances \in [MakerIds -> Balances]
    /\ now = 0
    /\ pc = "oracle_call"
    /\ call = [kind |-> "oracle"]
    /\ pools = <<>>
    /\ pending = {}
    /\ \E n \in OracleLengths :
            /\ makers = HoldersOfLength(n)
            /\ makerTokens = TokensOfLength(n)
    /\ minOfBalancesOrAllowances = <<>>
    /\ i = 0
    /\ side = "none"
    /\ count = 0
    /\ best = [bid |-> EmptyObject, ask |-> EmptyObject]
    /\ result = [bids |-> <<>>, asks |-> <<>>, records |-> <<>>]
    /\ response = NoResponse
    /\ alerted = <<>>
    /\ folded = <<>>
    /\ first = [kind |-> "none"]
    /\ ioLog = <<>>
    /\ other = NoOtherCall
    /\ checkRes = <<>>
    /\ NoPost

\* The chunks are built and one batch call per chunk is issued; the call
\* awaits them all.
OracleIssue ==
    /\ pc = "oracle_call"
    /\ ioLog' = batchCalls(makers, makerTokens)
    /\ pending' = DOMAIN Chunks(makers)
    /\ pc' = "oracle_wait"
    /\ UNCHANGED <<env, checkRes, call, pools, makers, makerTokens,
                   minOfBalancesOrAllowances, i, side, count, best, result,
                   response, alerted, folded>>

\* Faulty variant: the answers are kept in the order they arrive in.
settled_InArrivalOrder(values, index, data) ==
    [k \in 1..(Len(values) + 1) |-> IF k = Len(values) + 1 THEN data ELSE values[k]]

\* Promise.all keeps the answer of a batch at the index of the batch.
settled(values, index, data) ==
    [k \in DOMAIN values \cup {index} |-> IF k = index THEN data ELSE values[k]]

\* Batch call number index answers, for the pairs it was sent.
OracleBatchReturns(index) ==
    /\ pc = "oracle_wait"
    /\ index \in pending
    /\ checkRes' = settled(checkRes, index,
                           BalanceChecker(balances, ioLog[index].args[1],
                                          ioLog[index].args[2]))
    /\ pending' = pending \ {index}
    /\ UNCHANGED <<env, ioLog, pc, call, pools, makers, makerTokens,
                   minOfBalancesOrAllowances, i, side, count, best, result,
                   response, alerted, folded>>

\* All batches have answered: the answers are concatenated and returned.
OracleResolves ==
    /\ pc = "oracle_wait"
    /\ pending = {}
    /\ minOfBalancesOrAllowances' = Concat(checkRes)
    /\ pc' = "done"
    /\ UNCHANGED <<env, ioLog, checkRes, call, pools, pending, makers,
                   makerTokens, i, side, count, best, result, response,
                   alerted, folded>>

NextOracle ==
    \/ OracleIssue
    \/ \E index \in pending : OracleBatchReturns(index)
    \/ OracleResolves

SpecOracle == InitOracle /\ [][NextOracle]_vars

(***************************************************************************)
(* getFillableOrder on its own: any order against any lists and ledger.    *)
(***************************************************************************)
\* (maker, makerToken) pairs the lists may hold.
FoldPairs == {<<Addr(1, FALSE), CollateralToken>>,
              <<Addr(1, TRUE), CollateralToken>>,
              <<Addr(2, FALSE), CollateralToken>>,
              <<Addr(1, FALSE), LongToken(1)>>}

\* Ledger entries: negative, zero, fractional, positive.
FoldEntries == {BN(-300), BN(0), <<3, 2>>, BN(1000)}

\* The orders folded: maker 1 giving collateral for the long token.
FoldOrders ==
    {deserializeOrderToSRAOrder(OrderOfKind(Addr(1, FALSE), 1, p)) : p \in 1..3}

InitFold ==
    /\ orderSource = {}
    /\ persistentOrders = {}
    /\ balances = [m \in MakerIds |-> 0]
    /\ now = 0
    /\ pc = "fold"
    /\ \E n \in 0..MaxOrders :
        \E pairs \in [1..n -> FoldPairs], ledger \in [1..n -> FoldEntries] :
            /\ makers = [k \in 1..n |-> pairs[k][1]]
            /\ makerTokens = [k \in 1..n |-> pairs[k][2]]
            /\ minOfBalancesOrAllowances = ledger
            /\ call \in [kind : {"fold"}, order : FoldOrders, ledger : {ledger}]
    /\ pools = <<>>
    /\ pending = {}
    /\ i = 0
    /\ side = "none"
    /\ count = 0
    /\ best = [bid |-> EmptyObject, ask |-> EmptyObject]
    /\ result = [bids |-> <<>>, asks |-> <<>>, records |-> <<>>]
    /\ response = NoResponse
    /\ alerted = <<>>
    /\ folded = <<>>
    /\ first = [kind |-> "none"]
    /\ ioLog = <<>>
    /\ other = NoOtherCall
    /\ checkRes = <<>>
    /\ NoPost

\* getFillableOrder is called: it returns the order and the ledger (the
\* array passed in, written in place), or throws.
ApplyFold ==
    /\ pc = "fold"
    /\ LET fillableOrder == getFillableOrder(makers, makerTokens,
                                             minOfBalancesOrAllowances, call.order)
       IN  /\ response' = [kind |-> "fold", threw |-> fillableOrder.threw,
                           extendedOrder |-> fillableOrder.extendedOrder]
           /\ minOfBalancesOrAllowances' = fillableOrder.minOfBalancesOrAllowances
    /\ pc' = "done"
    /\ UNCHANGED <<env, ioLog, checkRes, call, pools, pending, makers,
                   makerTokens, i, side, count, best, result, alerted, folded>>

NextFold == ApplyFold

SpecFold == InitFold /\ [][NextFold]_vars

(***************************************************************************)
(* getOrderBookAsync calls only.                                           *)
(***************************************************************************)
NextBook ==
    \/ \E pg \in PageConfigs, m \in BookMarkets : GetOrderBook(pg[1], pg[2], m[1], m[2])
    \/ BookFindReturns
    \/ BookOracleReturns
    \/ BookFoldBid
    \/ BookBidsDone
    \/ BookFoldAsk
    \/ BookReturn

SpecBook == Init /\ [][NextBook]_vars

(***************************************************************************)
(* getPricesAsync calls only.                                              *)
(***************************************************************************)
NextPrices ==
    \/ \E req \in PriceRequests : GetPrices(req)
    \/ \E res \in PoolLists : PricesPoolsReturn(res)
    \/ \E k \in pending : PricesFindReturns(k)
    \/ PricesOracleReturns
    \/ PricesScanBid
    \/ PricesBidsDone
    \/ PricesScanAsk
    \/ PricesAsksDone
    \/ PricesReturn

SpecPrices == Init /\ [][NextPrices]_vars

(***************************************************************************)
(* Calls on orders the request filter turns down: reserved for a taker,    *)
(* paying a fee, or nearly filled.                                         *)
(***************************************************************************)
\* <<makerAmount, takerAmount, remainingFillableTakerAmount, taker,
\* feeRecipient, takerTokenFeeAmount>>: an open order, an order reserved
\* for a taker, a nearly filled order, an order paying the governance fee.
FilteredProfiles == <<
    <<800, 800, 800, NULL_ADDRESS, NULL_ADDRESS, 0>>,
    <<500, 500, 500, Addr(5, TRUE), NULL_ADDRESS, 0>>,
    <<1000, 1000, 100, NULL_ADDRESS, NULL_ADDRESS, 0>>,
    <<1000, 1000, 1000, NULL_ADDRESS, toLowerCase(DIVA_GOVERNANCE_ADDRESS), 10>> >>

\* Orders of maker 1: bids and asks on the long token, bids on the short.
FilteredOrders ==
    { Entity(d * 10 + p, Addr(1, FALSE), FilteredProfiles[p][4],
             Directions[d][1], Directions[d][2],
             FilteredProfiles[p][1], FilteredProfiles[p][2],
             FilteredProfiles[p][6], FilteredProfiles[p][5],
             SRA_ORDER_EXPIRATION_BUFFER_SECONDS + 1, FilteredProfiles[p][3])
        : d \in 1..3, p \in DOMAIN FilteredProfiles }

\* Requests of orderbookPricesAsync with one parameter set.
FilteredRequests ==
    { orderbookPricesRequest(1, 10, q) :
        q \in { [taker |-> {}, feeRecipient |-> {}, takerTokenFee |-> {},
                 threshold |-> {200}],
                [taker |-> {Addr(5, TRUE)}, feeRecipient |-> {}, takerTokenFee |-> {},
                 threshold |-> {}],
                [taker |-> {}, feeRecipient |-> {DIVA_GOVERNANCE_ADDRESS},
                 takerTokenFee |-> {}, threshold |-> {}],
                [taker |-> {}, feeRecipient |-> {}, takerTokenFee |-> {1000},
                 threshold |-> {}] } }

InitFiltered ==
    /\ orderSource \in SubsetsUpTo(FilteredOrders, MaxOrders)
    /\ persistentOrders = {}
    /\ balances \in [MakerIds -> Balances]
    /\ now = 0
    /\ pc = "idle"
    /\ call = [kind |-> "none"]
    /\ pools = <<>>
    /\ pending = {}
    /\ makers = <<>>
    /\ makerTokens = <<>>
    /\ minOfBalancesOrAllowances = <<>>
    /\ i = 0
    /\ side = "none"
    /\ count = 0
    /\ best = [bid |-> EmptyObject, ask |-> EmptyObject]
    /\ result = [bids |-> <<>>, asks |-> <<>>, records |-> <<>>]
    /\ response = NoResponse
    /\ alerted = <<>>
    /\ folded = <<>>
    /\ first = [kind |-> "none"]
    /\ ioLog = <<>>
    /\ other = NoOtherCall
    /\ checkRes = <<>>
    /\ NoPost

NextFiltered ==
    \/ \E pg \in PageConfigs, m \in BookMarkets : GetOrderBook(pg[1], pg[2], m[1], m[2])
    \/ BookFindReturns
    \/ BookOracleReturns
    \/ BookFoldBid
    \/ BookBidsDone
    \/ BookFoldAsk
    \/ BookReturn
    \/ \E req \in FilteredRequests : GetPrices(req)
    \/ \E res \in PoolLists : PricesPoolsReturn(res)
    \/ \E k \in pending : PricesFindReturns(k)
    \/ PricesOracleReturns
    \/ PricesScanBid
    \/ PricesBidsDone
    \/ PricesScanAsk
    \/ PricesAsksDone
    \/ PricesReturn

SpecFiltered == InitFiltered /\ [][NextFiltered]_vars

(***************************************************************************)
(* SRAHandlers.postOrderAsync, postOrdersAsync, postPersistentOrderAsync   *)
(* and the intake methods of OrderBookService they await.                  *)
(***************************************************************************)
StatusCodes_OK == 200

\* API keys a client may send: not a UUID, a UUID the configuration does
\* not list, a UUID it lists.
ApiKeys == {[uuid |-> FALSE, key |-> 1], [uuid |-> TRUE, key |-> 2],
            [uuid |-> TRUE, key |-> 3]}

isValidUUID(apiKey) == apiKey.uuid

SRA_PERSISTENT_ORDER_POSTING_WHITELISTED_API_KEYS == {[uuid |-> TRUE, key |-> 3]}

isAllowedPersistentOrders(apiKey) ==
    apiKey \in SRA_PERSISTENT_ORDER_POSTING_WHITELISTED_API_KEYS

\* What WHITELISTED_TOKENS may be configured as.
TokenWhitelists ==
    {AnyToken, [any |-> FALSE, tokens |-> {CollateralToken, LongToken(1)}]}

\* Orders as clients post them: the fields of the order and the sender
\* the client wrote.  The third names a token written in checksum case,
\* the fourth a token no whitelist holds.
RawOrders ==
    { [order |-> Entity(h, Addr(1, FALSE), NULL_ADDRESS, d[1], d[2], 800, 800, 0,
                        NULL_ADDRESS, SRA_ORDER_EXPIRATION_BUFFER_SECONDS + 1, 800),
       sender |-> snd]
        : h \in {1}, snd \in {NULL_ADDRESS, Addr(5, FALSE)},
          d \in {<<CollateralToken, LongToken(1)>>,
                 <<getAddress(CollateralToken), LongToken(1)>>,
                 <<LongToken(1), ShortToken(1)>>} }

\* unmarshallOrder: the posted fields with the sender forced to the null
\* address and the amounts made BigNumbers.
unmarshallOrder(signedOrderRaw) ==
    [order |-> deserializeOrderToSRAOrder(signedOrderRaw.order),
     sender |-> NULL_ADDRESS]

unmarshallOrders(signedOrdersRaw) ==
    [k \in DOMAIN signedOrdersRaw |-> unmarshallOrder(signedOrdersRaw[k])]

\* validateAssetTokenOrThrow: does it throw?
assetTokenRejected(allowedTokens, tokenAddress) == tokenAddress \notin allowedTokens

\* The whitelist test of the handlers on the orders of a request: the
\* error thrown, or "none".
tokensError(signedOrders) ==
    IF /\ ~WHITELISTED_TOKENS.any
       /\ \E k \in DOMAIN signedOrders :
            \/ assetTokenRejected(WHITELISTED_TOKENS.tokens,
                                  signedOrders[k].order.makerToken)
            \/ assetTokenRejected(WHITELISTED_TOKENS.tokens,
                                  signedOrders[k].order.takerToken)
    THEN "ValidationError"
    ELSE "none"

\* Requests: skipConfirmation absent, 'true' or 'false'; the 0x-api-key
\* header absent or one of the keys; a body that fits the schema of the
\* route or does not; one order (or up to MaxOrders for postOrdersAsync).
PostHandlers == {"postOrderAsync", "postOrdersAsync", "postPersistentOrderAsync"}

PostBodies(handler) ==
    IF handler = "postOrdersAsync"
    THEN UNION {[1..n -> RawOrders] : n \in 1..MaxOrders}
    ELSE [1..1 -> RawOrders]

PostRequests(handler) ==
    [query : [skipConfirmation : Optional({"true", "false"})],
     header : [apiKey : IF handler = "postPersistentOrderAsync"
                        THEN Optional(ApiKeys) ELSE {{}}],
     fitsSchema : BOOLEAN,
     body : PostBodies(handler)]

\* Faulty variant: the confirmation is sent after the intake whatever
\* skipConfirmation says.
sendsAfterIntake_Always(shouldSkipConfirmation) == TRUE

\* The two tests around the awaited intake call.
sendsBeforeIntake(shouldSkipConfirmation) == shouldSkipConfirmation
sendsAfterIntake(shouldSkipConfirmation) == ~shouldSkipConfirmation

shouldSkipConfirmation(req) == req.query.skipConfirmation = {"true"}

\* Faulty variant: the body is validated before the API key is looked at.
postError_SchemaFirst(handler, req) ==
    IF ~req.fitsSchema THEN "ValidationError"
    ELSE IF /\ handler = "postPersistentOrderAsync"
            /\ \/ req.header.apiKey = {}
               \/ ~isValidUUID(Given(req.header.apiKey))
               \/ ~isAllowedPersistentOrders(Given(req.header.apiKey))
    THEN "InvalidAPIKeyError"
    ELSE tokensError(unmarshallOrders(req.body))

\* What the handler throws before it sends or awaits anything, or "none".
postError(handler, req) ==
    IF /\ handler = "postPersistentOrderAsync"
       /\ \/ req.header.apiKey = {}
          \/ ~isValidUUID(Given(req.header.apiKey))
          \/ ~isAllowedPersistentOrders(Given(req.header.apiKey))
    THEN "InvalidAPIKeyError"
    ELSE IF ~req.fitsSchema THEN "ValidationError"
    ELSE tokensError(unmarshallOrders(req.body))

\* The rows the order watcher stores for the orders it accepted.
storedOrders(signedOrders) ==
    {[signedOrders[k].order EXCEPT !.remainingFillableTakerAmount =
            signedOrders[k].order.takerAmount] : k \in DOMAIN signedOrders}

\* A post request arrives.  The handler validates it; if nothing is thrown
\* it sends 200 at once when skipConfirmation is 'true', then calls the
\* intake method, which calls the order watcher and awaits it.
Post(handler, req) ==
    /\ pc = "idle"
    /\ call' = [kind |-> "post", handler |-> handler, req |-> req,
                signedOrders |-> unmarshallOrders(req.body)]
    /\ IF postError(handler, req) # "none"
       THEN /\ pc' = "failed"
            /\ response' = Rejection(postError(handler, req))
            /\ UNCHANGED <<sent, ioLog>>
       ELSE /\ pc' = "post_watcher"
            /\ sent' = IF sendsBeforeIntake(shouldSkipConfirmation(req))
                      THEN Append(sent, StatusCodes_OK) ELSE sent
            /\ ioLog' = Append(ioLog,
                    [kind |-> "postOrders", args |-> unmarshallOrders(req.body),
                     foldSteps |-> Len(folded),
                     sentBefore |-> IF sendsBeforeIntake(shouldSkipConfirmation(req))
                              THEN Len(sent) + 1 ELSE Len(sent)])
            /\ UNCHANGED response
    /\ UNCHANGED <<orderSource, persistentOrders, balances, now, first, other,
                   WHITELISTED_TOKENS, ORDERS_POST_REQUESTS, checkRes, pools,
                   pending, makers, makerTokens, minOfBalancesOrAllowances, i,
                   side, count, best, result, alerted, folded>>

\* The rest of a handler after its intake call returned.
Confirm ==
    /\ sent' = IF sendsAfterIntake(shouldSkipConfirmation(call.req))
              THEN Append(sent, StatusCodes_OK) ELSE sent
    /\ ORDERS_POST_REQUESTS' =
            IF call.handler = "postOrderAsync"
            THEN [ORDERS_POST_REQUESTS EXCEPT !.single = @ + 1]
            ELSE IF call.handler = "postOrdersAsync"
            THEN [ORDERS_POST_REQUESTS EXCEPT !.multi = @ + 1]
            ELSE ORDERS_POST_REQUESTS
    /\ response' = [kind |-> "void"]
    /\ pc' = "done"

\* The order watcher took the orders.  addOrderAsync and addOrdersAsync
\* return and the handler goes on; addPersistentOrdersAsync looks the
\* orders up in the order table.
WatcherReturns ==
    /\ pc = "post_watcher"
    /\ orderSource' = orderSource \cup storedOrders(call.signedOrders)
    /\ IF call.handler = "postPersistentOrderAsync"
       THEN /\ pc' = "post_find"
            /\ ioLog' = Append(ioLog,
                    [kind |-> "find",
                     args |-> {call.signedOrders[k].order.hash :
                                    k \in DOMAIN call.signedOrders},
                     foldSteps |-> Len(folded), sentBefore |-> Len(sent)])
            /\ UNCHANGED <<sent, ORDERS_POST_REQUESTS, response>>
       ELSE /\ Confirm
            /\ UNCHANGED ioLog
    /\ UNCHANGED <<persistentOrders, balances, now, first, other,
                   WHITELISTED_TOKENS, checkRes, call, pools, pending, makers,
                   makerTokens, minOfBalancesOrAllowances, i, side, count, best,
                   result, alerted, folded>>

\* The lookup returns the rows of the posted hashes; they are saved to the
\* persistent order table.
PostFindReturns ==
    /\ pc = "post_find"
    /\ pc' = "post_save"
    /\ ioLog' = Append(ioLog,
            [kind |-> "save",
             args |-> {o \in orderSource :
                        \E k \in DOMAIN call.signedOrders :
                            o.hash = call.signedOrders[k].order.hash},
             foldSteps |-> Len(folded), sentBefore |-> Len(sent)])
    /\ UNCHANGED <<env, checkRes, call, pools, pending, makers, makerTokens,
                   minOfBalancesOrAllowances, i, side, count, best, result,
                   response, alerted, folded>>

\* The save returns: addPersistentOrdersAsync is over.
PostSaveReturns ==
    /\ pc = "post_save"
    /\ persistentOrders' = persistentOrders \cup ioLog[Len(ioLog)].args
    /\ Confirm
    /\ UNCHANGED <<orderSource, balances, now, first, other, WHITELISTED_TOKENS,
                   ioLog, checkRes, call, pools, pending, makers, makerTokens,
                   minOfBalancesOrAllowances, i, side, count, best, result,
                   alerted, folded>>

\* An awaited call of the intake (order watcher, lookup, save) fails: the
\* intake method and the handler end with that error.
IntakeFails ==
    /\ pc \in {"post_watcher", "post_find", "post_save"}
    /\ pc' = "failed"
    /\ response' = Rejection(IF pc = "post_watcher" THEN "order watcher"
                             ELSE "database")
    /\ UNCHANGED <<env, ioLog, checkRes, call, pools, pending, makers, makerTokens,
                   minOfBalancesOrAllowances, i, side, count, best, result,
                   alerted, folded>>

InitPost ==
    /\ orderSource = {}
    /\ persistentOrders = {}
    /\ balances = [m \in MakerIds |-> 0]
    /\ now = 0
    /\ pc = "idle"
    /\ call = [kind |-> "none"]
    /\ pools = <<>>
    /\ pending = {}
    /\ makers = <<>>
    /\ makerTokens = <<>>
    /\ minOfBalancesOrAllowances = <<>>
    /\ i = 0
    /\ side = "none"
    /\ count = 0
    /\ best = [bid |-> EmptyObject, ask |-> EmptyObject]
    /\ result = [bids |-> <<>>, asks |-> <<>>, records |-> <<>>]
    /\ response = NoResponse
    /\ alerted = <<>>
    /\ folded = <<>>
    /\ first = [kind |-> "none"]
    /\ ioLog = <<>>
    /\ other = NoOtherCall
    /\ checkRes = <<>>
    /\ sent = <<>>
    /\ WHITELISTED_TOKENS \in TokenWhitelists
    /\ ORDERS_POST_REQUESTS = [single |-> 0, multi |-> 0]

NextPost ==
    \/ \E handler \in PostHandlers : \E req \in PostRequests(handler) :
            Post(handler, req)
    \/ WatcherReturns
    \/ PostFindReturns
    \/ PostSaveReturns
    \/ IntakeFails

SpecPost == InitPost /\ [][NextPost]_vars

\* The orders getFillableOrder returns over a ranked list, one per order.
RECURSIVE FoldResults(_, _, _, _)
FoldResults(orders, mks, mTokens, ledger) ==
    IF Len(orders) = 0 THEN <<>>
    ELSE LET fillableOrder == getFillableOrder(mks, mTokens, ledger, Head(orders))
         IN  <<fillableOrder.extendedOrder>>
             \o FoldResults(Tail(orders), mks, mTokens,
                            fillableOrder.minOfBalancesOrAllowances)

(***************************************************************************)
(* Properties.                                                             *)
(***************************************************************************)
\* Two orders draw on the same ledger key (maker, makerToken).
SameKey(a, b) ==
    /\ toLowerCase(a.maker) = toLowerCase(b.maker)
    /\ toLowerCase(a.makerToken) = toLowerCase(b.makerToken)

\* Fold step k is the next step after step j on the key of step j.
NextOnKey(j, k) ==
    /\ j < k
    /\ SameKey(folded[j].order, folded[k].order)
    /\ \A l \in (j + 1)..(k - 1) : ~SameKey(folded[j].order, folded[l].order)

\* C1: during a fold no entry of the ledger is ever below zero.
C1_LedgerNeverNegative ==
    \A k \in DOMAIN minOfBalancesOrAllowances :
        gte(minOfBalancesOrAllowances[k], BN(0))

\* C2: an order stored with 0 <= remainingFillableTakerAmount <= takerAmount
\* leaves every fold step, whatever the ledger holds, with a remaining
\* taker amount between 0 and takerAmount, and this holds for the orders
\* returned.
WithinTakerAmount(o) ==
    /\ gte(o.remainingFillableTakerAmount, BN(0))
    /\ lte(o.remainingFillableTakerAmount, BN(o.takerAmount))

C2_RemainingWithinTakerAmount ==
    /\ \A k \in DOMAIN folded :
            WithinTakerAmount(folded[k].order) => WithinTakerAmount(folded[k].extendedOrder)
    /\ response.kind = "book" =>
            \A o \in Range(response.bids.records) \cup Range(response.asks.records) :
                WithinTakerAmount(o)
    /\ response.kind = "prices" =>
            \A r \in Range(response.page.records) :
                /\ r.bid # EmptyObject => WithinTakerAmount(r.bid)
                /\ r.ask # EmptyObject => WithinTakerAmount(r.ask)

\* A fold step reduced an order to a positive amount below the stored one
\* while the ledger entry it met was positive, and the call has returned.
C2_Witness ==
    /\ pc = "done"
    /\ \E k \in DOMAIN folded :
            /\ gt(folded[k].available, BN(0))
            /\ gt(folded[k].extendedOrder.remainingFillableTakerAmount, BN(0))
            /\ gt(folded[k].order.remainingFillableTakerAmount,
                  folded[k].extendedOrder.remainingFillableTakerAmount)
    /\ \E k \in DOMAIN folded : lte(folded[k].available, BN(0))

\* C3: every order returned by getOrderBookAsync, and every best bid or ask
\* returned by getPricesAsync, carries the remaining taker amount the fold
\* computed for it in this pass.
C3_OutputCarriesFoldedAmount ==
    /\ response.kind = "book" =>
            \A o \in Range(response.bids.records) \cup Range(response.asks.records) :
                \E k \in DOMAIN folded :
                    /\ folded[k].order.hash = o.hash
                    /\ o.remainingFillableTakerAmount =
                            folded[k].extendedOrder.remainingFillableTakerAmount
    /\ response.kind = "prices" =>
            \A r \in Range(response.page.records) :
                \A b \in {r.bid, r.ask} \ {EmptyObject} :
                    \E k \in DOMAIN folded :
                        /\ folded[k].accepted
                        /\ b = getBidOrAskFormat(folded[k].extendedOrder)

\* C4: when A and then B of one (maker, makerToken) are folded and the
\* ledger covers A's implied maker amount but not A's plus B's, A keeps its
\* remaining taker amount, the ledger after A is the ledger before it less
\* A's implied maker amount, and B is reduced to that ledger value times
\* B.takerAmount / B.makerAmount.
Implied(o) ==
    div(multipliedBy(BN(o.makerAmount), o.remainingFillableTakerAmount),
        BN(o.takerAmount))

C4_PriorityAllocation ==
    \A j, k \in DOMAIN folded :
        LET A == folded[j].order
            B == folded[k].order
            snapshot == folded[j].available
        IN  ( /\ NextOnKey(j, k)
              /\ gte(snapshot, Implied(A))
              /\ gt(plus(Implied(A), Implied(B)), snapshot) )
            => /\ folded[j].extendedOrder.remainingFillableTakerAmount =
                    A.remainingFillableTakerAmount
               /\ folded[j].after = minus(snapshot, Implied(A))
               /\ folded[k].available = minus(snapshot, Implied(A))
               /\ folded[k].extendedOrder.remainingFillableTakerAmount =
                    div(multipliedBy(folded[k].available, BN(B.takerAmount)),
                        BN(B.makerAmount))

\* The example of the specification, in thousands: balance 1000, A 800/800,
\* B 500/500; the ledger after A is 200 and B is reduced to 200.
C4_Witness ==
    \E j, k \in DOMAIN folded :
        /\ NextOnKey(j, k)
        /\ folded[j].available = BN(1000)
        /\ folded[j].order.makerAmount = 800 /\ folded[j].order.takerAmount = 800
        /\ folded[k].order.makerAmount = 500 /\ folded[k].order.takerAmount = 500
        /\ folded[j].extendedOrder.remainingFillableTakerAmount = BN(800)
        /\ folded[k].available = BN(200)
        /\ folded[k].extendedOrder.remainingFillableTakerAmount = BN(200)

\* C5: in getPricesAsync, once the scan of a market has left the ledger
\* entry of (M, T) at zero or below, every order of M with maker token T
\* folded in a later market gets remaining taker amount 0 and is not
\* reported as a best bid or ask.
C5_CrossMarketExhaustion ==
    call.kind = "prices" =>
        \A j, k \in DOMAIN folded :
            ( /\ j < k
              /\ SameKey(folded[j].order, folded[k].order)
              /\ folded[j].pool < folded[k].pool
              /\ lte(folded[j].after, BN(0)) )
            => /\ folded[k].extendedOrder.remainingFillableTakerAmount = BN(0)
               /\ ~folded[k].accepted
               /\ \A b \in {best.bid, best.ask} :
                        b # getBidOrAskFormat(folded[k].order)
               /\ \A r \in Range(result.records) :
                        /\ r.bid # getBidOrAskFormat(folded[k].order)
                        /\ r.ask # getBidOrAskFormat(folded[k].order)

\* The scan of market 1 met a positive entry and left it at or below zero;
\* an order on the same key was folded in market 2; the call has returned.
C5_Witness ==
    /\ call.kind = "prices" /\ pc = "done"
    /\ \E j, k \in DOMAIN folded :
            /\ j < k
            /\ SameKey(folded[j].order, folded[k].order)
            /\ folded[j].pool = 1 /\ folded[k].pool = 2
            /\ gt(folded[j].available, BN(0))
            /\ lte(folded[j].after, BN(0))

\* The stored orders the call in flight loads from the order source.
Loaded ==
    {o \in orderSource :
        \/ /\ call.kind = "book"
           /\ o.takerToken \in {call.baseToken, call.quoteToken}
           /\ o.makerToken \in {call.baseToken, call.quoteToken}
        \/ /\ call.kind = "prices"
           /\ \E k \in DOMAIN pools :
                /\ o.takerToken \in {pools[k].baseToken, pools[k].quoteToken}
                /\ o.makerToken \in {pools[k].baseToken, pools[k].quoteToken}
        \/ /\ call.kind = "batch"
           /\ o.makerToken \in call.baseToken
           /\ o.takerToken \in call.quoteToken}

Expired(o) == o.expiry <= now + SRA_ORDER_EXPIRATION_BUFFER_SECONDS

\* C7: in every pass an order with expiry <= now + buffer is never ranked,
\* never folded and never returned.
C7_ExpiredNeverUsed ==
    /\ \A k \in DOMAIN pools :
            \A o \in Range(pools[k].bids) \cup Range(pools[k].asks) : ~Expired(o)
    /\ \A k \in DOMAIN folded : ~Expired(folded[k].order)
    /\ \A b \in {best.bid, best.ask} \ {EmptyObject} : ~Expired(b)
    /\ response.kind = "book" =>
            \A o \in Range(response.bids.records) \cup Range(response.asks.records) :
                ~Expired(o)
    /\ response.kind = "prices" =>
            \A r \in Range(response.page.records) :
                \A b \in {r.bid, r.ask} \ {EmptyObject} : ~Expired(b)
    /\ response.kind = "batch" =>
            \A o \in Range(response.page.records) : ~Expired(o)

\* A call that loaded an expired order has returned (one of each kind).
C7_Witness ==
    /\ pc = "done" /\ call.kind = "book"
    /\ \E o \in Loaded : Expired(o) /\ o.takerToken = call.baseToken
    /\ \E o \in Loaded : ~Expired(o) /\ o.takerToken = call.baseToken

\* C8: every order a pass drops as expired is handed to
\* alertOnExpiredOrders during that pass.
C8_ExpiredAreReported ==
    pc = "done" =>
        \A o \in Loaded :
            Expired(o) => deserializeOrderToSRAOrder(o) \in Range(alerted)

\* C10: getPricesAsync returns one record per market it processed, in
\* processing order, with bid (ask) empty exactly when no bid (ask) of the
\* market passed the fold and the filter.
C10_OneRecordPerMarket ==
    (pc = "done" /\ call.kind = "prices") =>
        /\ Len(response.page.records) = Len(pools)
        /\ \A k \in DOMAIN response.page.records :
            LET r == response.page.records[k]
            IN  /\ k \in DOMAIN pools
                /\ r.baseToken = getAddress(pools[k].baseToken)
                /\ r.quoteToken = getAddress(pools[k].quoteToken)
                /\ (r.bid = EmptyObject) <=>
                        ~\E e \in DOMAIN folded :
                            /\ folded[e].pool = k /\ folded[e].side = "bid"
                            /\ folded[e].accepted
                /\ (r.ask = EmptyObject) <=>
                        ~\E e \in DOMAIN folded :
                            /\ folded[e].pool = k /\ folded[e].side = "ask"
                            /\ folded[e].accepted

\* C6: filterOrder rejects every order whose remaining taker amount is at
\* most 100, whatever the threshold of the request; with threshold 0 and no
\* fee, taker or fee recipient constraint it accepts every order whose
\* remaining taker amount is at least 101.
C6_DustFloor ==
    (pc = "done" /\ call.kind = "filter") =>
        LET remaining == call.order.remainingFillableTakerAmount
        IN  /\ lte(remaining, BN(100)) => ~response.accepted
            /\ ( /\ call.req.threshold = 0
                 /\ call.req.takerTokenFee = -1
                 /\ call.req.taker = NULL_ADDRESS
                 /\ call.req.feeRecipient = NULL_ADDRESS
                 /\ gte(remaining, BN(101)) )
               => response.accepted

\* An order with 100 left was rejected under a threshold of 50 and no other
\* constraint.
C6_Witness ==
    /\ pc = "done" /\ call.kind = "filter"
    /\ call.order.remainingFillableTakerAmount = BN(100)
    /\ call.req.threshold = 50
    /\ call.req.takerTokenFee = -1
    /\ call.req.taker = NULL_ADDRESS
    /\ call.req.feeRecipient = NULL_ADDRESS
    /\ ~response.accepted

C11_FailureAbortsCall ==
    /\ pc = "failed" =>
            /\ response.kind = "error"
            /\ folded = <<>>
            /\ result = [bids |-> <<>>, asks |-> <<>>, records |-> <<>>]
            /\ minOfBalancesOrAllowances = <<>>
    /\ response.kind \in {"book", "prices"} => pc = "done"
    /\ (pc \in {"book_fold", "prices_scan"} /\ folded = <<>>) =>
            /\ Len(minOfBalancesOrAllowances) = Len(makers)
            /\ \A k \in DOMAIN makers :
                    minOfBalancesOrAllowances[k] = BN(balances[makers[k].id])

\* The balance checker failed in a getPricesAsync call that had found
\* orders of a maker with collateral.
C11_Witness ==
    /\ pc = "failed"
    /\ call.kind = "prices"
    /\ response = Rejection("balance checker")
    /\ \E k \in DOMAIN makers : balances[makers[k].id] > 0

\* C12: getOrdersAsync asked for unfillable orders without a maker fails
\* with the ValidationError on field maker (RequiredField) and has issued
\* no count or find on the order source, and returns no page.
C12_UnfillableRequiresMaker ==
    (/\ call.kind = "orders"
     /\ call.additionalFilters.isUnfillable = {TRUE}
     /\ call.orderFieldFilters.maker = {}) =>
        /\ pc = "failed"
        /\ response.kind = "ValidationError"
        /\ response.field = "maker"
        /\ response.code = "RequiredField"
        /\ ioLog = <<>>

\* Such a call was made (naming a trader but no maker) while both tables
\* held rows.
C12_Witness ==
    /\ call.kind = "orders"
    /\ call.additionalFilters.isUnfillable = {TRUE}
    /\ call.orderFieldFilters.maker = {}
    /\ call.additionalFilters.trader # {}
    /\ pc = "failed"
    /\ orderSource # {}
    /\ persistentOrders # {}

\* C13: of two calls interleaved at their awaits in any way, each returns
\* what it returns when it runs alone on the same orders, pools and
\* balance checker answers.
C13_CallsAreIsolated ==
    /\ (pc = "done" /\ call.kind \in {"book", "prices"}) =>
            response = ResponseAlone(Locals)
    /\ (other.locals.pc = "done" /\ other.locals.call.kind \in {"book", "prices"}) =>
            other.locals.response = ResponseAlone(other.locals)

\* Two calls that were in flight at the same time have both returned
\* orders of the same maker on the same collateral.
C13_Witness ==
    /\ other.overlapped
    /\ pc = "done" /\ other.locals.pc = "done"
    /\ call.kind = "prices" /\ other.locals.call.kind = "book"
    /\ response.page.records # <<>>
    /\ \E r \in Range(response.page.records) : r.bid # EmptyObject
    /\ other.locals.response.bids.records # <<>>
    /\ \E j \in DOMAIN folded, k \in DOMAIN other.locals.folded :
            SameKey(folded[j].order, other.locals.folded[k].order)

\* C14: getMinOfBalancesOrAllowances sends batches of at most
\* ARRAY_LIMIT_LENGTH pairs, chunk k of the holders with chunk k of the
\* tokens, covering the lists in order, and returns at position i the
\* answer of the balance checker for (makers[i], makerTokens[i]), in
\* whatever order the batches answer.
C14_BatchesReassembledInOrder ==
    /\ (call.kind = "oracle" /\ pc # "oracle_call") =>
            /\ \A k \in DOMAIN ioLog :
                    /\ ioLog[k].kind = "oracle"
                    /\ Len(ioLog[k].args[1]) <= ARRAY_LIMIT_LENGTH
                    /\ Len(ioLog[k].args[1]) = Len(ioLog[k].args[2])
                    /\ Len(ioLog[k].args[1]) > 0
            /\ Concat([k \in DOMAIN ioLog |-> ioLog[k].args[1]]) = makers
            /\ Concat([k \in DOMAIN ioLog |-> ioLog[k].args[2]]) = makerTokens
    /\ (call.kind = "oracle" /\ pc = "done") =>
            /\ Len(minOfBalancesOrAllowances) = Len(makers)
            /\ \A k \in DOMAIN makers :
                    minOfBalancesOrAllowances[k] =
                        BalanceChecker(balances, <<makers[k]>>, <<makerTokens[k]>>)[1]
            /\ minOfBalancesOrAllowances =
                    getMinOfBalancesOrAllowances(balances, makers, makerTokens)

\* A ledger fetched in three batches or more was returned, the makers
\* having different balances.
C14_Witness ==
    /\ call.kind = "oracle"
    /\ pc = "done"
    /\ Len(ioLog) >= 3
    /\ Len(makers) > 2 * ARRAY_LIMIT_LENGTH
    /\ balances[1] # balances[2]

\* The ledger entry a fold step must start from if the balance checker is
\* asked once per pass: its answer for the first step on a pair, and what
\* the previous step on the pair left for a later one.
Carried(k) ==
    IF \E j \in 1..(k - 1) : NextOnKey(j, k)
    THEN folded[CHOOSE j \in 1..(k - 1) : NextOnKey(j, k)].after
    ELSE BN(balances[folded[k].order.maker.id])

\* C15: in one pass the balance checker is sampled once: its batch calls
\* are all issued before any fold step and cover the whole list of pairs,
\* the ledger is complete when the first fold step runs, and every fold
\* step works from that sample less what earlier steps took, not from a
\* new reading.
C15_OracleSampledOnce ==
    /\ \A k \in DOMAIN ioLog :
            ioLog[k].kind = "oracle" => ioLog[k].foldSteps = 0
    /\ folded # <<>> =>
            /\ Len(SelectSeq(ioLog, LAMBDA c : c.kind = "oracle"))
                    = Len(Chunks(makers))
            /\ Concat([k \in DOMAIN SelectSeq(ioLog, LAMBDA c : c.kind = "oracle") |->
                        SelectSeq(ioLog, LAMBDA c : c.kind = "oracle")[k].args[1]])
                    = makers
            /\ Len(minOfBalancesOrAllowances) = Len(makers)
    /\ \A k \in DOMAIN folded :
            /\ folded[k].available = Carried(k)
            /\ lte(Carried(k), BN(0)) =>
                    folded[k].extendedOrder.remainingFillableTakerAmount = BN(0)
            /\ (gt(Carried(k), BN(0)) /\ gt(Implied(folded[k].order), Carried(k))) =>
                    lte(folded[k].extendedOrder.remainingFillableTakerAmount,
                        div(multipliedBy(Carried(k), BN(folded[k].order.takerAmount)),
                            BN(folded[k].order.makerAmount)))

\* A getPricesAsync pass over two markets has returned: the second market
\* folded an order of a pair an order of the first market had drawn on.
C15_Witness ==
    /\ pc = "done"
    /\ call.kind = "prices"
    /\ \E j, k \in DOMAIN folded :
            /\ NextOnKey(j, k)
            /\ folded[j].pool = 1 /\ folded[k].pool = 2
            /\ gt(folded[j].available, BN(0))
            /\ folded[k].available # BN(balances[folded[k].order.maker.id])

\* The maker amount an order draws at the remaining taker amount a fold
\* step gave it.
Drawn(step) ==
    div(multipliedBy(BN(step.order.makerAmount),
                     step.extendedOrder.remainingFillableTakerAmount),
        BN(step.order.takerAmount))

C17_ExhaustedLeavesLedger ==
    [][ ( /\ Len(folded') = Len(folded) + 1
          /\ lte(folded'[Len(folded')].available, BN(0)) )
        => /\ minOfBalancesOrAllowances' = minOfBalancesOrAllowances
           /\ folded'[Len(folded')].extendedOrder.remainingFillableTakerAmount = BN(0)
           /\ folded'[Len(folded')].after = folded'[Len(folded')].available ]_vars

\* The last fold step met a negative entry, while another entry of the
\* ledger was positive.
C17_Witness ==
    /\ folded # <<>>
    /\ gt(BN(0), folded[Len(folded)].available)
    /\ \E k \in DOMAIN minOfBalancesOrAllowances :
            gt(minOfBalancesOrAllowances[k], BN(0))

ExpectedFee(order, req) ==
    multipliedBy(BN(order.takerAmount),
                 Norm(req.takerTokenFee, FEE_UNIT_DENOMINATOR))

\* C19: the arithmetic of the fold is integer arithmetic with truncating
\* division: the implied maker amount, the remaining taker amount a step
\* gives and every ledger value are integers after every fold step, and
\* the fee filterOrder expects is an integer.
C19_IntegerArithmetic ==
    /\ \A k \in DOMAIN folded :
            /\ isInteger(Implied(folded[k].order))
            /\ isInteger(folded[k].extendedOrder.remainingFillableTakerAmount)
            /\ isInteger(folded[k].after)
    /\ \A k \in DOMAIN minOfBalancesOrAllowances :
            isInteger(minOfBalancesOrAllowances[k])
    /\ (call.kind = "filter" /\ call.req.takerTokenFee # -1) =>
            isInteger(ExpectedFee(call.order, call.req))

\* The order passes the taker, fee recipient and threshold tests.
PassesOtherTests(order, req) ==
    filterOrder(order, [req EXCEPT !.takerTokenFee = -1])

\* C20: under a request with a fee tolerance, filterOrder rejects an order
\* on account of its fee exactly if takerTokenFeeAmount is outside the
\* closed interval [expected - 1, expected + 1]; a fee of expected - 1 or
\* expected + 1 is not rejected.
C20_FeeToleranceIsClosed ==
    (/\ pc = "done"
     /\ call.kind = "filter"
     /\ call.req.takerTokenFee # -1) =>
        LET expected == ExpectedFee(call.order, call.req)
            fee == BN(call.order.takerTokenFeeAmount)
            inside == /\ gte(fee, minus(expected, BN(1)))
                      /\ lte(fee, plus(expected, BN(1)))
        IN  /\ ~inside => ~response.accepted
            /\ (inside /\ PassesOtherTests(call.order, call.req))
                    => response.accepted

\* filterOrder with its first fee test taken out.
filterOrderWithoutPreCheck(order, req) ==
    LET expected == ExpectedFee(order, req)
        fee == BN(order.takerTokenFeeAmount)
    IN  /\ req.takerTokenFee # -1 =>
                ~( \/ lte(fee, minus(expected, BN(1)))
                   \/ gte(fee, plus(expected, BN(1))) )
        /\ ~takerMismatch(order, req)
        /\ ~feeRecipientMismatch(order, req)
        /\ ~belowThreshold(order.remainingFillableTakerAmount, req.threshold)

\* C21: the fee test for open orders paying the governance address adds
\* nothing to the general fee test: for every order and request filterOrder
\* answers as it does with that test taken out.
C21_PreCheckIsRedundant ==
    (pc = "done" /\ call.kind = "filter") =>
        response.accepted = filterOrderWithoutPreCheck(call.order, call.req)

\* An open order paying the governance address passed the fee tests and
\* was accepted, and the request set a fee.
C21_Witness ==
    /\ pc = "done" /\ call.kind = "filter"
    /\ call.req.takerTokenFee # -1
    /\ call.order.taker = NULL_ADDRESS
    /\ call.order.feeRecipient = toLowerCase(DIVA_GOVERNANCE_ADDRESS)
    /\ call.req.feeRecipient = toLowerCase(DIVA_GOVERNANCE_ADDRESS)
    /\ response.accepted

\* The order passes the fee and threshold tests.
PassesFeeAndThreshold(order, req) ==
    filterOrder(order, [req EXCEPT !.taker = NULL_ADDRESS,
                                   !.feeRecipient = NULL_ADDRESS])

\* C22: under a request naming a taker, filterOrder accepts only orders of
\* that taker; under a request naming a fee recipient, only orders paying
\* that address; a request with the null address for either turns no
\* order down on that account.  Addresses are equal whatever their case.
C22_TakerAndFeeRecipientMatch ==
    (pc = "done" /\ call.kind = "filter") =>
        /\ response.accepted =>
                /\ \/ call.req.taker = NULL_ADDRESS
                   \/ call.order.taker.id = call.req.taker.id
                /\ \/ call.req.feeRecipient = NULL_ADDRESS
                   \/ call.order.feeRecipient.id = call.req.feeRecipient.id
        /\ ( /\ PassesFeeAndThreshold(call.order, call.req)
             /\ \/ call.req.taker = NULL_ADDRESS
                \/ call.order.taker.id = call.req.taker.id
             /\ \/ call.req.feeRecipient = NULL_ADDRESS
                \/ call.order.feeRecipient.id = call.req.feeRecipient.id )
            => response.accepted

\* An order whose taker and fee recipient are written in checksum case
\* was accepted under a request naming both.
C22_Witness ==
    /\ pc = "done" /\ call.kind = "filter"
    /\ call.req.taker # NULL_ADDRESS
    /\ call.req.feeRecipient # NULL_ADDRESS
    /\ call.order.taker.cs
    /\ call.order.feeRecipient.cs
    /\ response.accepted

\* The ledger as the balance checker gave it to the call in flight.
Snapshot == getMinOfBalancesOrAllowances(balances, makers, makerTokens)

\* C23: getOrderBookAsync folds every bid, in ranked order, before any ask,
\* and the asks are folded on the ledger the bids left: it is not asked
\* again or reset between the two loops.
C23_BidsThenAsksOnOneLedger ==
    (call.kind = "book" /\ pc \in {"book_fold", "done"}) =>
        LET bids == pools[1].bids
            asks == pools[1].asks
            afterBids == FoldAll(bids, call.req, makers, makerTokens, Snapshot).ledger
        IN  /\ \A j \in DOMAIN folded :
                    IF j <= Len(bids)
                    THEN folded[j].side = "bid" /\ folded[j].order = bids[j]
                    ELSE /\ folded[j].side = "ask"
                         /\ j - Len(bids) <= Len(asks)
                         /\ folded[j].order = asks[j - Len(bids)]
            /\ side = "bid" => Len(folded) = count
            /\ side = "ask" =>
                    /\ Len(folded) = Len(bids) + count
                    /\ minOfBalancesOrAllowances =
                            FoldAll(SubSeq(asks, 1, count), call.req, makers,
                                    makerTokens, afterBids).ledger

\* A book call folded bids that drew on the ledger, then asks.
C23_Witness ==
    /\ call.kind = "book" /\ pc = "done"
    /\ Len(pools[1].bids) > 0
    /\ Len(pools[1].asks) > 0
    /\ Len(folded) = Len(pools[1].bids) + Len(pools[1].asks)
    /\ FoldAll(pools[1].bids, call.req, makers, makerTokens, Snapshot).ledger # Snapshot

\* C27: in getOrderBookAsync on a market of two different tokens a bid
\* reads and writes an entry of (maker, quoteToken) and an ask an entry of
\* (maker, baseToken); so what getFillableOrder gives for each ask, and the
\* asks returned, are those of the asks folded on the ledger as the balance
\* checker gave it (the bids folded after the asks, or not at all).
C27_AsksIndependentOfBids ==
    (call.kind = "book" /\ pc = "done" /\ call.baseToken # call.quoteToken) =>
        LET bids == pools[1].bids
            asks == pools[1].asks
        IN  /\ \A j \in DOMAIN folded :
                    LET k == makerIndexOf(makers, makerTokens, folded[j].order)
                    IN  /\ k > 0
                        /\ toLowerCase(makers[k]) = toLowerCase(folded[j].order.maker)
                        /\ toLowerCase(makerTokens[k]) =
                                IF folded[j].side = "bid"
                                THEN toLowerCase(call.quoteToken)
                                ELSE toLowerCase(call.baseToken)
            /\ [j \in DOMAIN asks |-> folded[Len(bids) + j].extendedOrder]
                    = FoldResults(asks, makers, makerTokens, Snapshot)
            /\ result.asks = FoldAll(asks, call.req, makers, makerTokens, Snapshot).kept

\* A maker's bid drew on the ledger and an ask of the same maker was
\* folded after it with collateral available.
C27_Witness ==
    /\ call.kind = "book" /\ pc = "done"
    /\ \E j, k \in DOMAIN folded :
            /\ j < k
            /\ folded[j].side = "bid"
            /\ folded[k].side = "ask"
            /\ folded[j].order.maker.id = folded[k].order.maker.id
            /\ gt(folded[j].available, folded[j].after)
            /\ gt(folded[k].available, BN(0))
            /\ folded[k].extendedOrder.remainingFillableTakerAmount # BN(0)

\* The fold steps of one side of market m, in the order they were done.
StepsOf(m, s) == SelectSeq(folded, LAMBDA f : f.pool = m /\ f.side = s)

\* The ranked list of one side of market m.
RankedOf(m, s) == IF s = "bid" THEN pools[m].bids ELSE pools[m].asks

\* What the scan of one side of market m reports, by the steps it did.
BestOf(m, s) ==
    LET steps == StepsOf(m, s)
    IN  IF Len(steps) > 0 /\ steps[Len(steps)].accepted
        THEN getBidOrAskFormat(steps[Len(steps)].order)
        ELSE EmptyObject

\* C24: in getPricesAsync the best order reported for a market and side is
\* the first of the ranked list that passes getFillableOrder and filterOrder
\* on the ledger as it stands when it is tried; the scan of the side ends
\* there, so the orders ranked after it are not folded and leave the ledger
\* alone; markets are scanned in list order, the bids of each before its asks.
C24_BestIsFirstPassing ==
    (call.kind = "prices" /\ pc \in {"prices_scan", "done"}) =>
        /\ \A j, k \in DOMAIN folded :
                j < k => \/ folded[j].pool < folded[k].pool
                         \/ /\ folded[j].pool = folded[k].pool
                            /\ folded[j].side = "ask" => folded[k].side = "ask"
        /\ \A m \in DOMAIN pools : \A s \in {"bid", "ask"} :
                LET steps == StepsOf(m, s)
                IN  /\ Len(steps) <= Len(RankedOf(m, s))
                    /\ \A n \in DOMAIN steps :
                            /\ steps[n].order = RankedOf(m, s)[n]
                            /\ steps[n].accepted => n = Len(steps)
        /\ \A m \in DOMAIN result.records :
                /\ result.records[m].bid = BestOf(m, "bid")
                /\ result.records[m].ask = BestOf(m, "ask")
                /\ \A s \in {"bid", "ask"} :
                        BestOf(m, s) = EmptyObject
                            => Len(StepsOf(m, s)) = Len(RankedOf(m, s))
        /\ minOfBalancesOrAllowances =
                FoldAll([j \in DOMAIN folded |-> folded[j].order], call.req,
                        makers, makerTokens, Snapshot).ledger
        /\ pc = "done" =>
                /\ Len(result.records) = Len(pools)
                /\ result.records =
                        ScanMarkets(pools, call.req, makers, makerTokens, Snapshot)

\* A market had two bids ranked and the first one passed: it is reported
\* and the second was not folded.
C24_Witness ==
    /\ call.kind = "prices" /\ pc = "done"
    /\ \E m \in DOMAIN result.records :
            /\ Len(RankedOf(m, "bid")) >= 2
            /\ Len(StepsOf(m, "bid")) = 1
            /\ result.records[m].bid = getBidOrAskFormat(RankedOf(m, "bid")[1])

\* Fold step j met collateral, and less than the order's implied maker amount.
Clipped(j) ==
    /\ gt(folded[j].available, BN(0))
    /\ gt(Implied(folded[j].order), folded[j].available)

C26_RejectedOrderIsDebited ==
    \A j \in DOMAIN folded :
        /\ folded[j].accepted = filterOrder(folded[j].extendedOrder, call.req)
        /\ (~folded[j].accepted /\ gt(folded[j].available, BN(0))) =>
                /\ folded[j].after =
                        minus(folded[j].available, Implied(folded[j].order))
                /\ \A k \in DOMAIN folded :
                        NextOnKey(j, k) => folded[k].available = folded[j].after
                /\ (~\E k \in DOMAIN folded : NextOnKey(j, k)) =>
                        minOfBalancesOrAllowances[
                            makerIndexOf(makers, makerTokens, folded[j].order)]
                                = folded[j].after

\* An order met collateral and was turned down for its taker; the next
\* order of the key found the entry lowered by its implied maker amount.
C26_Witness ==
    \E j, k \in DOMAIN folded :
        /\ NextOnKey(j, k)
        /\ ~folded[j].accepted
        /\ call.req.taker # NULL_ADDRESS
        /\ gt(folded[j].available, BN(0))
        /\ gt(Implied(folded[j].order), BN(0))
        /\ gt(folded[j].available, folded[k].available)

\* The key of a pair: (maker, makerToken) in lower case.
KeyOf(maker, makerToken) == <<toLowerCase(maker), toLowerCase(makerToken)>>

\* The keys of the pairs the call in flight asked the balance checker about.
Keys == {KeyOf(makers[k], makerTokens[k]) : k \in DOMAIN makers}

\* A ledger kept as a map from keys to amounts, after the first n fold
\* steps: it starts from what the balance checker says of each key, and a
\* step that finds its key above zero takes the implied maker amount off.
RECURSIVE MapLedger(_)
MapLedger(n) ==
    IF n = 0 THEN [key \in Keys |-> BN(balances[key[1].id])]
    ELSE LET before == MapLedger(n - 1)
             key == KeyOf(folded[n].order.maker, folded[n].order.makerToken)
         IN  IF gt(before[key], BN(0))
             THEN [before EXCEPT ![key] = minus(@, Implied(folded[n].order))]
             ELSE before

\* C28: the ledger array, with one entry per order and so several for a
\* pair that comes back, works as a map keyed by (maker, makerToken): each
\* fold step of a key reads and writes the entry of the last position
\* whose pair is the order's, whatever the case, and the amounts the orders
\* of a key find are those of a map that starts from the balance checker's
\* figure for each key.
C28_LedgerArrayIsAMap ==
    /\ \A j \in DOMAIN folded :
            LET o == folded[j].order
                k == makerIndexOf(makers, makerTokens, o)
            IN  /\ k \in DOMAIN makers
                /\ KeyOf(makers[k], makerTokens[k]) = KeyOf(o.maker, o.makerToken)
                /\ \A l \in (k + 1)..Len(makers) :
                        KeyOf(makers[l], makerTokens[l]) # KeyOf(o.maker, o.makerToken)
                /\ folded[j].available =
                        MapLedger(j - 1)[KeyOf(o.maker, o.makerToken)]
                /\ folded[j].after = MapLedger(j)[KeyOf(o.maker, o.makerToken)]
    /\ folded # <<>> =>
            LedgerMap = {<<key[1], key[2], MapLedger(Len(folded))[key]>> : key \in Keys}

\* Two orders of one maker and token, the maker written in lower case in
\* one and in checksum case in the other, were folded one after the other:
\* the second found what the first left.
C28_Witness ==
    \E j, k \in DOMAIN folded :
        /\ NextOnKey(j, k)
        /\ folded[j].order.maker # folded[k].order.maker
        /\ gt(folded[j].available, folded[j].after)
        /\ folded[k].available = folded[j].after
        /\ Len(makers) > Cardinality(Keys)

\* The (maker, makerToken) pairs of the orders of a market, bids then asks.
PairsOfMarket(market) ==
    [k \in 1..(Len(market.bids) + Len(market.asks)) |->
        LET o == IF k <= Len(market.bids) THEN market.bids[k]
                 ELSE market.asks[k - Len(market.bids)]
        IN  <<o.maker, o.makerToken>>]

\* How many times x is in the sequence.
Occurrences(x, seq) == Cardinality({k \in DOMAIN seq : seq[k] = x})

\* The pairs of the markets whose query has returned, in list order.
PairsReturned ==
    Concat([m \in DOMAIN pools |->
                IF m \in pending THEN <<>> ELSE PairsOfMarket(pools[m])])

\* C29: the order-source queries of getPricesAsync, one per market, run
\* concurrently; in whatever order they complete, makers and makerTokens
\* hold every (maker, makerToken) pair of every market, position by
\* position, and the best bids and asks returned are those of a call whose
\* queries complete in the order of the market list.
C29_CompletionOrderIsImmaterial ==
    (call.kind = "prices" /\ pc \in {"prices_find", "prices_oracle",
                                       "prices_scan", "done"}) =>
        /\ Len(makers) = Len(makerTokens)
        /\ Len(makers) = Len(PairsReturned)
        /\ \A k \in DOMAIN PairsReturned :
                Occurrences(PairsReturned[k], PairsReturned)
                    = Occurrences(PairsReturned[k],
                                  [l \in DOMAIN makers |-> <<makers[l], makerTokens[l]>>])
        /\ pc = "done" => response = PricesAlone(call, pools)

\* The query of the second market completed before that of the first;
\* both markets hold a bid of the same maker, and both got a best bid.
C29_Witness ==
    /\ call.kind = "prices" /\ pc = "done"
    /\ Len(pools) = 2
    /\ Len(pools[1].bids) > 0 /\ Len(pools[2].bids) > 0
    /\ SameKey(pools[1].bids[1], pools[2].bids[1])
    /\ makers[1] = pools[2].bids[1].maker
    /\ makers[1] # pools[1].bids[1].maker
    /\ Len(response.page.records) = 2
    /\ response.page.records[1].bid # EmptyObject
    /\ response.page.records[2].bid # EmptyObject

\* The intake of the request in flight has completed without error.
IntakeCompleted ==
    /\ pc = "done"
    /\ storedOrders(call.signedOrders) \subseteq orderSource
    /\ call.handler = "postPersistentOrderAsync" =>
            storedOrders(call.signedOrders) \subseteq persistentOrders

\* C30: in postOrderAsync, postOrdersAsync and postPersistentOrderAsync,
\* unless skipConfirmation is 'true' the 200 is sent only once the intake
\* call has completed without error, and never if it fails; when it is
\* 'true' the 200 is sent before the intake starts; a run that succeeds
\* sends exactly one response.
C30_ConfirmationOrder ==
    call.kind = "post" =>
        /\ ~shouldSkipConfirmation(call.req) =>
                /\ sent # <<>> => IntakeCompleted
                /\ pc = "failed" => sent = <<>>
        /\ shouldSkipConfirmation(call.req) =>
                \A k \in DOMAIN ioLog : ioLog[k].sentBefore = 1 /\ sent = <<StatusCodes_OK>>
        /\ pc = "done" => sent = <<StatusCodes_OK>>

\* A request without skipConfirmation whose intake failed, and no
\* response was sent.
C30_Witness ==
    /\ call.kind = "post"
    /\ call.req.query.skipConfirmation # {"true"}
    /\ pc = "failed"
    /\ Len(ioLog) > 0
    /\ sent = <<>>

\* The request in flight carries an API key that allows persistent orders.
KeyAllowed ==
    /\ call.req.header.apiKey # {}
    /\ Given(call.req.header.apiKey).uuid
    /\ Given(call.req.header.apiKey)
            \in SRA_PERSISTENT_ORDER_POSTING_WHITELISTED_API_KEYS

\* An order of the request in flight names a token the configured list
\* does not hold.
NamesOtherToken ==
    /\ ~WHITELISTED_TOKENS.any
    /\ \E k \in DOMAIN call.req.body :
            \/ call.req.body[k].order.makerToken \notin WHITELISTED_TOKENS.tokens
            \/ call.req.body[k].order.takerToken \notin WHITELISTED_TOKENS.tokens

\* C31: postPersistentOrderAsync hands no order to the intake and sends no
\* 200 unless the 0x-api-key header is there, is a UUID and is in the list
\* of keys allowed to post persistent orders; without such a key it ends
\* with InvalidAPIKeyError, before the body is validated.  With a token
\* list configured, postOrdersAsync hands no order of a batch to the intake
\* if one of its orders names a maker or taker token outside the list.
C31_KeyAndTokensGateIntake ==
    /\ (call.kind = "post" /\ call.handler = "postPersistentOrderAsync"
            /\ ~KeyAllowed) =>
            /\ ioLog = <<>>
            /\ sent = <<>>
            /\ orderSource = {} /\ persistentOrders = {}
            /\ pc = "failed"
            /\ response = Rejection("InvalidAPIKeyError")
    /\ (call.kind = "post" /\ call.handler = "postOrdersAsync"
            /\ NamesOtherToken) =>
            /\ ioLog = <<>>
            /\ orderSource = {}
            /\ pc = "failed"
            /\ call.req.fitsSchema => response = Rejection("ValidationError")

\* A persistent order arrived with a UUID key that is not allowed and a
\* body that does not fit the schema: the call ended on the key.
C31_Witness ==
    /\ call.kind = "post" /\ call.handler = "postPersistentOrderAsync"
    /\ call.req.header.apiKey # {}
    /\ Given(call.req.header.apiKey).uuid
    /\ ~KeyAllowed
    /\ ~call.req.fitsSchema
    /\ pc = "failed"
    /\ response = Rejection("InvalidAPIKeyError")

====
